---- MODULE Spec2Model ----
(***************************************************************************)
(* Leaderboard refresh pipeline of youmioseedviewer_r.                     *)
(*                                                                         *)
(* The refresh orchestrator is the edge function `leaderboard-refresh`     *)
(* (src/unnamed/part_002).  One invocation of its handler is modelled as   *)
(* the sequence of its awaited steps: Invoke (the request and the select   *)
(* of the job status), Guard (the conflict check and the "mark as          *)
(* running" upsert), Body (collection lookup, completion, fetch of the     *)
(* NFTs and listings), Meta (one batch upsert of the metadata loop), Load  *)
(* (paged read of the token ids) and Points (fetchPointsChunk, the points  *)
(* upsert and the response).  Callers hold the cursor and pass it back.    *)
(*                                                                         *)
(* Units and abstractions                                                  *)
(*  - time is counted in minutes; Date.now() is `now`;                     *)
(*  - a token id is represented by its rank in the store's ordering of     *)
(*    the text column token_id, so `<` on ranks is `.order('token_id')`;   *)
(*  - the two tables are sets of rows; UNIQUE (collection_slug, token_id)  *)
(*    is what Upsert's conflict target resolves against.                   *)
(***************************************************************************)
EXTENDS Integers, Sequences, FiniteSets, TLC

VARIABLES
    now,            \* Date.now(), in minutes
    meta,           \* the leaderboard_meta row of cache_key 'leaderboard_v1'
    entries,        \* the rows of leaderboard_entries
    world,          \* what the two upstream services hold (fixed per behaviour)
    cursor,         \* per caller: the cursor it will send next
    phase,          \* per caller: ready | wait | done | failed | conflict
    starts,         \* per caller: how many times it started from (0,0)
    pc,             \* per caller: the step its invocation in flight is at
    loc,            \* per caller: the locals of its invocation
    resp,           \* per caller: the last response it received
    faults,         \* number of faults injected so far
    hist,           \* per caller: history of its current refresh run
    comp            \* the state of a client, pool or endpoint run on its own

vars == << now, meta, entries, world, cursor, phase, starts, pc, loc, resp,
           faults, hist, comp >>

----------------------------------------------------------------------------
(* Bounds of the model *)

MaxTokens == 1001
MaxStarts == 2
MaxTicks == 5
MaxFaults == 1

(* Program constants *)

CHUNK_SIZE == 800
GuardWindowMin == 5
pageSize == 1000
batchSize == 200
RefreshRetries == 3
NftMaxPages == 50
NftPageLimit == 200

Callers == {1, 2}

NoTime == 0 - 1
NoIndex == 0 - 1
NULL == "null"

Min(a, b) == IF a < b THEN a ELSE b

COLLECTIONS ==
    << [nftType |-> "Ancient", slug |-> "ancientseed"],
       [nftType |-> "Mythic", slug |-> "mythicseed"] >>

\* COLLECTIONS[currentCollection], JavaScript indexing from 0
HasCollection(i) == i >= 0 /\ i < Len(COLLECTIONS)

CollectionAt(i) == COLLECTIONS[i + 1]

Tokens == 1 .. MaxTokens

----------------------------------------------------------------------------
(* The upstream services *)

\* identifiers OpenSea lists for a collection, in the world of this behaviour
UpstreamNFTs(slug) == 1 .. world[slug]

UpstreamItem(slug, t) ==
    [identifier |-> t, image_url |-> "img", opensea_url |-> "url"]

\* token ids with an active listing
UpstreamListed(slug) == {t \in UpstreamNFTs(slug) : t % 2 = 0}

\* the points the staking service reports for a token: a deterministic stub
StakingPoints(tokenId, nftType) ==
    IF tokenId % 4 = 0 THEN 0
    ELSE (tokenId % 5) + 1 + (IF nftType = "Mythic" THEN 10 ELSE 0)

StakingResponse(tokenId, nftType, attempt) ==
    [ok |-> TRUE, points |-> StakingPoints(tokenId, nftType)]

\* fetchAllNFTs: pages of `limit` items until the cursor ends or maxPages.
\* The array of items is held as the sequence of its identifiers (page
\* order) and the item of each identifier.
FetchAllNFTs(slug) ==
    LET got == Min(world[slug], NftMaxPages * NftPageLimit)
    IN  [order |-> [j \in 1 .. got |-> j],
         item |-> [t \in 1 .. got |-> UpstreamItem(slug, t)]]

NoNFTs == [order |-> << >>, item |-> << >>]

FetchListedTokenIds(slug) == UpstreamListed(slug)

RECURSIVE FetchPointsAttempt(_, _, _, _)
FetchPointsAttempt(tokenId, nftType, attempt, retries) ==
    IF attempt > retries THEN 0
    ELSE LET res == StakingResponse(tokenId, nftType, attempt) IN
         IF res.ok
         THEN IF res.points = 0 /\ attempt < retries
              THEN FetchPointsAttempt(tokenId, nftType, attempt + 1, retries)
              ELSE res.points
         ELSE FetchPointsAttempt(tokenId, nftType, attempt + 1, retries)

FetchPointsWithRetry(tokenId, nftType, retries) ==
    FetchPointsAttempt(tokenId, nftType, 1, retries)

----------------------------------------------------------------------------
(* The store *)

NoMeta ==
    [status |-> "absent", last_started_at |-> NoTime,
     last_completed_at |-> NoTime, last_error |-> NULL]

KeyOf(r) == << r.collection_slug, r.token_id >>

\* INSERT of a payload row: the columns it lacks take the table's defaults;
\* id is gen_random_uuid(), held as a number no other row of the key has
InsertedRow(p, id) ==
    [id |-> id,
     collection_slug |-> p.collection_slug,
     nft_type |-> p.nft_type,
     token_id |-> p.token_id,
     points |-> IF "points" \in DOMAIN p THEN p.points ELSE 0,
     image_url |-> IF "image_url" \in DOMAIN p THEN p.image_url ELSE NULL,
     opensea_url |-> IF "opensea_url" \in DOMAIN p THEN p.opensea_url ELSE NULL,
     is_listed |-> IF "is_listed" \in DOMAIN p THEN p.is_listed ELSE FALSE]

\* the conflicting row replaced by the payload row: the columns the
\* payload lacks fall back to the table's defaults
UpdatedRowDefaults(r, p) == InsertedRow(p, r.id)

\* the conflicting row updated with a monotonicity check on the points:
\* the higher of the stored and the new value is kept
UpdatedRowKeepsHigher(r, p) ==
    [id |-> r.id,
     collection_slug |-> r.collection_slug,
     nft_type |-> p.nft_type,
     token_id |-> r.token_id,
     points |-> IF "points" \in DOMAIN p /\ p.points > r.points
                THEN p.points ELSE r.points,
     image_url |-> IF "image_url" \in DOMAIN p THEN p.image_url ELSE r.image_url,
     opensea_url |-> IF "opensea_url" \in DOMAIN p THEN p.opensea_url ELSE r.opensea_url,
     is_listed |-> IF "is_listed" \in DOMAIN p THEN p.is_listed ELSE r.is_listed]

\* ON CONFLICT DO UPDATE SET: the payload's columns replace the row's
UpdatedRow(r, p) ==
    [id |-> r.id,
     collection_slug |-> r.collection_slug,
     nft_type |-> p.nft_type,
     token_id |-> r.token_id,
     points |-> IF "points" \in DOMAIN p THEN p.points ELSE r.points,
     image_url |-> IF "image_url" \in DOMAIN p THEN p.image_url ELSE r.image_url,
     opensea_url |-> IF "opensea_url" \in DOMAIN p THEN p.opensea_url ELSE r.opensea_url,
     is_listed |-> IF "is_listed" \in DOMAIN p THEN p.is_listed ELSE r.is_listed]

\* a plain INSERT into a table without the unique key
InsertEntries(table, slug, pay) ==
    table \cup
    {InsertedRow(pay[t],
         Cardinality({r \in table : r.collection_slug = slug /\ r.token_id = t})) :
        t \in DOMAIN pay}

\* upsert(rows, {onConflict: 'collection_slug,token_id'}); pay maps the
\* token ids of the payload (all of collection `slug`) to its rows
UpsertEntries(table, slug, pay) ==
    LET present == {r.token_id : r \in {x \in table : x.collection_slug = slug}}
    IN  {IF r.collection_slug = slug /\ r.token_id \in DOMAIN pay
            THEN UpdatedRow(r, pay[r.token_id]) ELSE r : r \in table}
        \cup {InsertedRow(pay[t], 0) : t \in (DOMAIN pay) \ present}

\* select('token_id').eq('nft_type', nftType): the token ids of the rows
TokenIdsOfType(table, nftType) ==
    {r.token_id : r \in {x \in table : x.nft_type = nftType}}

\* .order('token_id', {ascending: true})
OrderByTokenId(ids) ==
    LET Held(t) == t \in ids
    IN  SelectSeq([t \in Tokens |-> t], Held)

\* .range(from, from + pageSize - 1) of the ordered result
TokenIdPage(ids, from) ==
    LET all == OrderByTokenId(ids)
    IN  SubSeq(all, from + 1, Min(from + pageSize, Len(all)))

\* the paging loop of the handler over the rows `ids` of the query
RECURSIVE LoadTokenIds(_, _, _)
LoadTokenIds(ids, from, acc) ==
    LET page == TokenIdPage(ids, from) IN
    IF Len(page) = 0 THEN acc
    ELSE IF Len(page) < pageSize THEN acc \o page
    ELSE LoadTokenIds(ids, from + pageSize, acc \o page)

----------------------------------------------------------------------------
(* The job-status record *)

\* existingMeta.last_started_at ? new Date(...).getTime() : 0
StartedAt(em) ==
    IF em.last_started_at = NoTime THEN 0 ELSE em.last_started_at

\* the comparison with the window's end counted as fresh
IsFreshInclusive(em, t) ==
    em.status = "running" /\ StartedAt(em) >= t - GuardWindowMin

\* the comparison the wrong way round
IsFreshInverted(em, t) ==
    em.status = "running" /\ StartedAt(em) < t - GuardWindowMin

\* existingMeta?.status === 'running' && startedAt > fiveMinutesAgo
IsFresh(em, t) ==
    em.status = "running" /\ StartedAt(em) > t - GuardWindowMin

MarkRunning(m, t) ==
    [status |-> "running", last_started_at |-> t,
     last_completed_at |-> m.last_completed_at, last_error |-> NULL]

\* the completion upsert without last_error
MarkIdleKeepsError(m, t) ==
    [status |-> "idle", last_started_at |-> m.last_started_at,
     last_completed_at |-> t, last_error |-> m.last_error]

MarkIdle(m, t) ==
    [status |-> "idle", last_started_at |-> m.last_started_at,
     last_completed_at |-> t, last_error |-> NULL]

\* the error upsert with last_started_at reset
MarkErrorResetsStart(m, msg) ==
    [status |-> "error", last_started_at |-> NoTime,
     last_completed_at |-> m.last_completed_at, last_error |-> msg]

MarkError(m, msg) ==
    [status |-> "error", last_started_at |-> m.last_started_at,
     last_completed_at |-> m.last_completed_at, last_error |-> msg]

----------------------------------------------------------------------------
(* The steps of the refresh that touch the entries *)

MetadataRow(slug, nftType, nft, listedIds) ==
    [collection_slug |-> slug, nft_type |-> nftType,
     token_id |-> nft.identifier, image_url |-> nft.image_url,
     opensea_url |-> nft.opensea_url,
     is_listed |-> nft.identifier \in listedIds]

\* nfts.slice(i, i + batchSize).map(...): the rows of one metadata upsert
MetadataBatch(slug, nftType, nfts, listedIds, i) ==
    LET batch == SubSeq(nfts.order, i + 1, Min(i + batchSize, Len(nfts.order)))
    IN  [t \in {batch[j] : j \in DOMAIN batch} |->
            MetadataRow(slug, nftType, nfts.item[t], listedIds)]

\* for (i = 0; i < nfts.length; i += batchSize) upsert(rows of the batch),
\* the whole loop over an unchanging table
RECURSIVE StoreMetadata(_, _, _, _, _, _)
StoreMetadata(table, slug, nftType, nfts, listedIds, i) ==
    IF i >= Len(nfts.order) THEN table
    ELSE StoreMetadata(
             UpsertEntries(table, slug,
                           MetadataBatch(slug, nftType, nfts, listedIds, i)),
             slug, nftType, nfts, listedIds, i + batchSize)

\* fetchPointsChunk with the slice ending one position early
FetchPointsChunkShort(tokenIds, nftType, startIdx, maxToProcess) ==
    LET endIdx == Min(startIdx + maxToProcess, Len(tokenIds))
        chunk == SubSeq(tokenIds, startIdx + 1, endIdx - 1)
    IN  [pointsById |-> [t \in {chunk[j] : j \in DOMAIN chunk} |->
                            FetchPointsWithRetry(t, nftType, RefreshRetries)],
         processed |-> endIdx,
         hasMore |-> endIdx < Len(tokenIds)]

\* fetchPointsChunk with hasMore false one position before the end
FetchPointsChunkStopsEarly(tokenIds, nftType, startIdx, maxToProcess) ==
    LET endIdx == Min(startIdx + maxToProcess, Len(tokenIds))
        chunk == SubSeq(tokenIds, startIdx + 1, endIdx)
    IN  [pointsById |-> [t \in {chunk[j] : j \in DOMAIN chunk} |->
                            FetchPointsWithRetry(t, nftType, RefreshRetries)],
         processed |-> endIdx,
         hasMore |-> endIdx < Len(tokenIds) - 1]

\* fetchPointsChunk with the slice starting one position early
FetchPointsChunkOverlap(tokenIds, nftType, startIdx, maxToProcess) ==
    LET endIdx == Min(startIdx + maxToProcess, Len(tokenIds))
        chunk == SubSeq(tokenIds, IF startIdx = 0 THEN 1 ELSE startIdx, endIdx)
    IN  [pointsById |-> [t \in {chunk[j] : j \in DOMAIN chunk} |->
                            FetchPointsWithRetry(t, nftType, RefreshRetries)],
         processed |-> endIdx,
         hasMore |-> endIdx < Len(tokenIds)]

\* fetchPointsChunk reporting the start of its slice as processed
FetchPointsChunkStalls(tokenIds, nftType, startIdx, maxToProcess) ==
    LET endIdx == Min(startIdx + maxToProcess, Len(tokenIds))
        chunk == SubSeq(tokenIds, startIdx + 1, endIdx)
    IN  [pointsById |-> [t \in {chunk[j] : j \in DOMAIN chunk} |->
                            FetchPointsWithRetry(t, nftType, RefreshRetries)],
         processed |-> startIdx,
         hasMore |-> endIdx < Len(tokenIds)]

\* fetchPointsChunk(tokenIds, nftType, startIdx, maxToProcess)
FetchPointsChunk(tokenIds, nftType, startIdx, maxToProcess) ==
    LET endIdx == Min(startIdx + maxToProcess, Len(tokenIds))
        chunk == SubSeq(tokenIds, startIdx + 1, endIdx)
    IN  [pointsById |-> [t \in {chunk[j] : j \in DOMAIN chunk} |->
                            FetchPointsWithRetry(t, nftType, RefreshRetries)],
         processed |-> endIdx,
         hasMore |-> endIdx < Len(tokenIds)]

\* Object.entries(pointsById).map(...): the rows of the points upsert
PointsUpdates(slug, nftType, pointsById) ==
    [t \in DOMAIN pointsById |->
        [collection_slug |-> slug, token_id |-> t,
         points |-> pointsById[t], nft_type |-> nftType]]

----------------------------------------------------------------------------
(* Callers and invocations *)

Start == << 0, 0 >>

NoResp ==
    [status |-> 0, ok |-> FALSE, completed |-> FALSE,
     nextCollection |-> NoIndex, nextOffset |-> NoIndex,
     calls |-> {}, sent |-> << NoIndex, NoIndex >>, fetched |-> {}]

\* 409 {ok: false, error: 'Refresh already running'}
ConflictResp ==
    [status |-> 409, ok |-> FALSE, completed |-> FALSE,
     nextCollection |-> NoIndex, nextOffset |-> NoIndex,
     calls |-> {}, sent |-> << NoIndex, NoIndex >>, fetched |-> {}]

\* 200 {ok: true, completed: true}
CompletedResp ==
    [status |-> 200, ok |-> TRUE, completed |-> TRUE,
     nextCollection |-> NoIndex, nextOffset |-> NoIndex,
     calls |-> {}, sent |-> << NoIndex, NoIndex >>, fetched |-> {}]

\* 200 {ok: true, completed: false, nextCollection, nextOffset}
NextResp(i, off) ==
    [status |-> 200, ok |-> TRUE, completed |-> FALSE,
     nextCollection |-> i, nextOffset |-> off,
     calls |-> {}, sent |-> << NoIndex, NoIndex >>, fetched |-> {}]

\* 500 {ok: false, error: 'Refresh failed'}
FailedResp ==
    [status |-> 500, ok |-> FALSE, completed |-> FALSE,
     nextCollection |-> NoIndex, nextOffset |-> NoIndex,
     calls |-> {}, sent |-> << NoIndex, NoIndex >>, fetched |-> {}]

NoLocals ==
    [existingMeta |-> [status |-> "absent", last_started_at |-> NoTime],
     nfts |-> NoNFTs, listedIds |-> {}, i |-> 0, tokenIds |-> << >>,
     calls |-> {}]

NewRun(fromStart) ==
    [fromStart |-> fromStart, invocations |-> 0, admittedAt |-> NoTime,
     active |-> FALSE,
     fetched |-> {}, refetched |-> {}, written |-> {}, rewritten |-> {},
     metaApplied |-> [ancientseed |-> 0, mythicseed |-> 0], store0 |-> {}]

\* The handler returns r; its locals are gone with it.  The record of the
\* response also keeps what the invocation was sent and did: the upstream
\* services it contacted and the token ids whose points it fetched.  What
\* the caller does with the response is triggerRefresh's cursor handling.
CallerAfter(c, r, calls, fetched) ==
    /\ resp' = [resp EXCEPT ![c] = [r EXCEPT !.calls = calls,
                                             !.sent = cursor[c],
                                             !.fetched = fetched]]
    /\ pc' = [pc EXCEPT ![c] = "none"]
    /\ loc' = [loc EXCEPT ![c] = NoLocals]
    /\ phase' = [phase EXCEPT ![c] =
            IF r.status = 409 THEN "conflict"
            ELSE IF ~r.ok THEN "failed"
            ELSE IF r.completed THEN "done"
            ELSE "ready"]
    /\ cursor' = [cursor EXCEPT ![c] =
            IF r.ok /\ ~r.completed
            THEN << r.nextCollection, r.nextOffset >> ELSE @]

\* the caller starts (again) from (0,0)
StartRun(c) ==
    /\ phase[c] \in {"done", "failed", "conflict"}
    /\ starts[c] < MaxStarts
    /\ starts' = [starts EXCEPT ![c] = @ + 1]
    /\ cursor' = [cursor EXCEPT ![c] = Start]
    /\ phase' = [phase EXCEPT ![c] = "ready"]
    /\ hist' = [hist EXCEPT ![c] =
            [NewRun(TRUE) EXCEPT !.metaApplied = hist[c].metaApplied]]
    /\ UNCHANGED << comp, now, meta, entries, world, pc, loc, resp, faults >>

\* The request arrives with body = {currentCollection, currentOffset} and
\* the handler reads the job status:
\* select('status, last_started_at').eq('cache_key', cacheKey).maybeSingle().
\* Only an initial call goes through the conflict check.
Invoke(c) ==
    /\ phase[c] = "ready"
    /\ pc[c] = "none"
    /\ phase' = [phase EXCEPT ![c] = "wait"]
    /\ loc' = [loc EXCEPT ![c].existingMeta =
            [status |-> meta.status, last_started_at |-> meta.last_started_at]]
    /\ pc' = [pc EXCEPT ![c] = IF cursor[c] = Start THEN "guard" ELSE "body"]
    /\ hist' = [hist EXCEPT ![c].invocations = @ + 1]
    /\ UNCHANGED << comp, now, meta, entries, world, cursor, starts, resp, faults >>

\* the record as it is in the store when the check runs
GuardViewNow(c) ==
    [status |-> meta.status, last_started_at |-> meta.last_started_at]

\* the record the conflict check looks at: the one this invocation read
GuardView(c) == loc[c].existingMeta

\* if (currentCollection === 0 && currentOffset === 0) { check; mark running }
Guard(c) ==
    /\ pc[c] = "guard"
    /\ IF IsFresh(GuardView(c), now)
       THEN /\ CallerAfter(c, ConflictResp, loc[c].calls, {})
            /\ UNCHANGED << meta, hist >>
       ELSE /\ meta' = MarkRunning(meta, now)
            /\ hist' = [hist EXCEPT ![c].admittedAt = now,
                                    ![c].active = TRUE,
                                    ![c].store0 = entries]
            /\ pc' = [pc EXCEPT ![c] = "body"]
            /\ UNCHANGED << cursor, phase, resp, loc >>
    /\ UNCHANGED << comp, now, entries, world, starts, faults >>

\* collection lookup; completion; on the first chunk of a collection the
\* NFTs and the listings are fetched
Body(c) ==
    /\ pc[c] = "body"
    /\ LET i == cursor[c][1]
           off == cursor[c][2]
       IN  IF ~HasCollection(i)
           THEN /\ meta' = MarkIdle(meta, now)
                /\ CallerAfter(c, CompletedResp, loc[c].calls, {})
                /\ hist' = [hist EXCEPT ![c].active = FALSE]
           ELSE /\ IF off = 0
                   THEN LET slug == CollectionAt(i).slug
                            nfts == FetchAllNFTs(slug)
                        IN  /\ loc' = [loc EXCEPT
                                   ![c].nfts = nfts,
                                   ![c].listedIds = FetchListedTokenIds(slug),
                                   ![c].i = 0,
                                   ![c].calls = @ \cup {"opensea"}]
                            /\ pc' = [pc EXCEPT ![c] =
                                   IF 0 < Len(nfts.order) THEN "meta" ELSE "load"]
                            /\ hist' = [hist EXCEPT ![c].metaApplied[slug] =
                                   IF 0 < Len(nfts.order) THEN @ ELSE @ + 1]
                   ELSE /\ pc' = [pc EXCEPT ![c] = "load"]
                        /\ UNCHANGED << loc, hist >>
                /\ UNCHANGED << meta, cursor, phase, resp >>
    /\ UNCHANGED << comp, now, entries, world, starts, faults >>

\* fetch() of the NFTs or of the listings rejects: the exception leaves
\* fetchAllNFTs / fetchListedTokenIds and is caught by the handler
BodyThrows(c) ==
    /\ pc[c] = "body"
    /\ HasCollection(cursor[c][1])
    /\ cursor[c][2] = 0
    /\ faults < MaxFaults
    /\ faults' = faults + 1
    /\ meta' = MarkError(meta, "fetch failed")
    /\ CallerAfter(c, FailedResp, loc[c].calls \cup {"opensea"}, {})
    /\ hist' = [hist EXCEPT ![c].active = FALSE]
    /\ UNCHANGED << comp, now, entries, world, starts >>

\* one turn of the metadata loop: the upsert of the batch at loc[c].i
Meta(c) ==
    /\ pc[c] = "meta"
    /\ LET slug == CollectionAt(cursor[c][1]).slug
           nftType == CollectionAt(cursor[c][1]).nftType
           i == loc[c].i
       IN  \E pay \in {MetadataBatch(slug, nftType, loc[c].nfts,
                                     loc[c].listedIds, i)} :
              /\ entries' = UpsertEntries(entries, slug, pay)
              /\ IF i + batchSize < Len(loc[c].nfts.order)
                 THEN /\ loc' = [loc EXCEPT ![c].i = i + batchSize]
                      /\ UNCHANGED << pc, hist >>
                 ELSE /\ pc' = [pc EXCEPT ![c] = "load"]
                      /\ hist' = [hist EXCEPT ![c].metaApplied[slug] = @ + 1]
                      /\ UNCHANGED loc
    /\ UNCHANGED << comp, now, meta, world, cursor, phase, starts, resp, faults >>

\* the token list taken from the NFTs this invocation fetched, not re-read
FetchedTokenIds(c, ids) == loc[c].nfts.order

\* const tokenIds = []; then every page of the store's rows of the type
StoredTokenIds(c, ids) == LoadTokenIds(ids, 0, << >>)

\* the paged read of the token ids; a read error is thrown and caught
Load(c, fail) ==
    /\ pc[c] = "load"
    /\ LET i == cursor[c][1] IN
       \E ids \in {TokenIdsOfType(entries, CollectionAt(i).nftType)} :
          LET tokenIds == StoredTokenIds(c, ids)
          IN  IF fail
              THEN /\ faults < MaxFaults
                   /\ faults' = faults + 1
                   /\ meta' = MarkError(meta, "Unknown error")
                   /\ CallerAfter(c, FailedResp, loc[c].calls, {})
                   /\ hist' = [hist EXCEPT ![c].active = FALSE]
              ELSE /\ IF Len(tokenIds) = 0
                      THEN CallerAfter(c, NextResp(i + 1, 0), loc[c].calls, {})
                      ELSE /\ loc' = [loc EXCEPT ![c].tokenIds = tokenIds]
                           /\ pc' = [pc EXCEPT ![c] = "points"]
                           /\ UNCHANGED << cursor, phase, resp >>
                   /\ UNCHANGED << meta, faults, hist >>
    /\ UNCHANGED << comp, now, entries, world, starts >>

\* fetch the points of the chunk, write them, answer with the next cursor
Points(c) ==
    /\ pc[c] = "points"
    /\ LET i == cursor[c][1]
           slug == CollectionAt(i).slug
           nftType == CollectionAt(i).nftType
       IN  \E got \in {FetchPointsChunk(loc[c].tokenIds, nftType,
                                        cursor[c][2], CHUNK_SIZE)} :
           \E updates \in {PointsUpdates(slug, nftType, got.pointsById)} :
              LET keys == {<< slug, t >> : t \in DOMAIN updates}
                  calls == IF keys # {} THEN loc[c].calls \cup {"staking"}
                           ELSE loc[c].calls
              IN  /\ entries' = IF DOMAIN updates # {}
                                THEN UpsertEntries(entries, slug, updates)
                                ELSE entries
                  /\ hist' = [hist EXCEPT
                          ![c].refetched = @ \cup (hist[c].fetched \cap keys),
                          ![c].fetched = @ \cup keys,
                          ![c].rewritten = @ \cup (hist[c].written \cap keys),
                          ![c].written = @ \cup keys]
                  /\ IF got.hasMore
                     THEN CallerAfter(c, NextResp(i, got.processed), calls,
                                      DOMAIN got.pointsById)
                     ELSE CallerAfter(c, NextResp(i + 1, 0), calls,
                                      DOMAIN got.pointsById)
    /\ UNCHANGED << comp, now, meta, world, starts, faults >>

Epoch == GuardWindowMin + 1

\* the steps that read the clock: the conflict check with its stamp of
\* last_started_at, and the completion branch's stamp of last_completed_at
ReadsClock(c) ==
    \/ pc[c] = "guard"
    \/ pc[c] = "body" /\ ~HasCollection(cursor[c][1])

\* A minute passes.  Time that passes while no step is about to read the
\* clock is the same to every step as time passing right before the read.
Tick ==
    /\ now < Epoch + MaxTicks
    /\ \E c \in Callers : ReadsClock(c)
    /\ now' = now + 1
    /\ UNCHANGED << comp, meta, entries, world, cursor, phase, starts, pc, loc,
                    resp, faults, hist >>

----------------------------------------------------------------------------
(* Initial states *)

Slugs == {COLLECTIONS[k].slug : k \in DOMAIN COLLECTIONS}

\* upstream collections of the concurrent specification: a few tokens
SmallWorlds ==
    {[ancientseed |-> 0, mythicseed |-> 1, prior |-> FALSE]}

\* upstream collections of the sequential specification: around the chunk
\* size and the page size
SeqWorlds ==
    {[ancientseed |-> a, mythicseed |-> m, prior |-> p] :
        a \in {0, CHUNK_SIZE}, m \in {2, MaxTokens - 1}, p \in BOOLEAN}

\* rows left by an earlier refresh that read another upstream listing and
\* stopped on an error: one token the upstream may still list, one it no
\* longer lists
PriorRows ==
    {[id |-> 0,
      collection_slug |-> COLLECTIONS[k].slug, nft_type |-> COLLECTIONS[k].nftType,
      token_id |-> t, points |-> 7, image_url |-> "old", opensea_url |-> NULL,
      is_listed |-> TRUE] : k \in DOMAIN COLLECTIONS, t \in {1, MaxTokens}}

\* the rows of the table when the behaviour starts
InitialRows == IF world.prior THEN PriorRows ELSE {}

PriorMeta ==
    [status |-> "error", last_started_at |-> Epoch - 1,
     last_completed_at |-> NoTime, last_error |-> "Unknown error"]

\* request bodies a caller may send first
CursorInputs ==
    {<< i, off >> : i \in 0 .. 3, off \in {0, 1, CHUNK_SIZE, 2 * CHUNK_SIZE + 100}}

\* no client, pool or endpoint is run on its own
NoComp == [kind |-> "none"]

InitCommon ==
    /\ comp = NoComp
    /\ now = Epoch
    /\ pc = [c \in Callers |-> "none"]
    /\ loc = [c \in Callers |-> NoLocals]
    /\ resp = [c \in Callers |-> NoResp]
    /\ faults = 0

Init ==
    /\ InitCommon
    /\ starts = [c \in Callers |-> IF c = 1 THEN 1 ELSE MaxStarts]
    /\ world \in SmallWorlds
    /\ meta = NoMeta
    /\ entries = InitialRows
    /\ cursor = [c \in Callers |-> Start]
    /\ phase = [c \in Callers |-> "ready"]
    /\ hist = [c \in Callers |-> NewRun(TRUE)]

SeqCallers == {1}

InitSeq ==
    /\ InitCommon
    /\ starts = [c \in Callers |-> 1]
    /\ world \in SeqWorlds
    /\ entries = InitialRows
    /\ meta = IF world.prior THEN PriorMeta ELSE NoMeta
    /\ \E first \in CursorInputs :
          /\ cursor = [c \in Callers |-> IF c \in SeqCallers THEN first ELSE Start]
          /\ hist = [c \in Callers |-> NewRun(c \in SeqCallers /\ first = Start)]
    /\ phase = [c \in Callers |-> IF c \in SeqCallers THEN "ready" ELSE "off"]

----------------------------------------------------------------------------
(* Specifications *)

\* any interleaving of the steps of two callers' invocations
Next ==
    \/ Tick
    \/ \E c \in Callers :
          \/ StartRun(c)
          \/ Invoke(c)
          \/ Guard(c)
          \/ Body(c)
          \/ BodyThrows(c)
          \/ Meta(c)
          \/ Load(c, FALSE)
          \/ Load(c, TRUE)
          \/ Points(c)

Spec == Init /\ [][Next]_vars

\* no other initial invocation is between its read and its check-and-write
GuardFree(c) ==
    \A d \in Callers \ {c} : ~(cursor[d] = Start /\ pc[d] = "guard")

InvokeSerial(c) ==
    /\ cursor[c] = Start => GuardFree(c)
    /\ Invoke(c)

\* an initial invocation is about to be made, or a completion is about to
\* be stamped
BeforeClockRead(c) ==
    IF pc[c] = "none"
    THEN phase[c] = "ready" /\ cursor[c] = Start
    ELSE pc[c] = "body" /\ ~HasCollection(cursor[c][1])

\* A minute passes, none of it between an initial invocation's read and its
\* check-and-write.
TickSerial ==
    /\ now < Epoch + MaxTicks
    /\ \E c \in Callers : BeforeClockRead(c)
    /\ \A c \in Callers : pc[c] # "guard"
    /\ now' = now + 1
    /\ UNCHANGED << comp, meta, entries, world, cursor, phase, starts, pc, loc,
                    resp, faults, hist >>

\* as Next, with the initial invocations' read-check-write not interleaved
NextSerial ==
    \/ TickSerial
    \/ \E c \in Callers :
          \/ StartRun(c)
          \/ InvokeSerial(c)
          \/ Guard(c)
          \/ Body(c)
          \/ BodyThrows(c)
          \/ Meta(c)
          \/ Load(c, FALSE)
          \/ Load(c, TRUE)
          \/ Points(c)

SpecSerial == Init /\ [][NextSerial]_vars

\* one caller, one invocation at a time, no store fault
NextSeq ==
    \E c \in SeqCallers :
          \/ StartRun(c)
          \/ Invoke(c)
          \/ Guard(c)
          \/ Body(c)
          \/ Meta(c)
          \/ Load(c, FALSE)
          \/ Points(c)

SpecSeq == InitSeq /\ [][NextSeq]_vars /\ WF_vars(NextSeq)

----------------------------------------------------------------------------
(* Properties of the conflict guard *)

\* caller c's invocation takes its conflict-check step
GuardStep(c) == pc[c] = "guard" /\ pc'[c] # "guard"

\* the record the invocation read says running, started less than the
\* guard window before the check
ReadRunningFresh(c) ==
    /\ loc[c].existingMeta.status = "running"
    /\ loc[c].existingMeta.last_started_at # NoTime
    /\ now - loc[c].existingMeta.last_started_at < GuardWindowMin

\* C1: an initial invocation that read status 'running' with last_started_at
\* less than 5 minutes old answers 409 and changes neither the job-status
\* record nor any entry, and has issued no upstream request.
C1_ConflictMutatesNothing ==
    [][\A c \in Callers :
          GuardStep(c) /\ ReadRunningFresh(c) =>
              /\ resp'[c].status = 409
              /\ ~resp'[c].ok
              /\ resp'[c].sent = Start
              /\ resp'[c].calls = {}
              /\ meta' = meta
              /\ entries' = entries]_vars

\* a caller was answered 409 while the other's refresh is in flight
C1_Witness ==
    \E c \in Callers :
        /\ resp[c].status = 409
        /\ phase[c] = "conflict"
        /\ meta.status = "running"
        /\ \E d \in Callers \ {c} : hist[d].active

\* C2: an initial invocation that read a status other than 'running', or
\* 'running' with last_started_at at least 5 minutes old or absent, is
\* admitted: the record becomes status 'running', last_started_at = now,
\* last_error = null (last_completed_at kept), before any entry is written
\* and before any upstream request.
C2_AdmissionMarksRunning ==
    [][\A c \in Callers :
          GuardStep(c) /\ ~ReadRunningFresh(c) =>
              /\ pc'[c] = "body"
              /\ cursor'[c] = Start
              /\ meta'.status = "running"
              /\ meta'.last_started_at = now
              /\ meta'.last_error = NULL
              /\ meta'.last_completed_at = meta.last_completed_at
              /\ entries' = entries
              /\ loc'[c].calls = {}]_vars

\* an invocation was admitted over a 'running' record that had gone stale
C2_Witness ==
    \E c \in Callers :
        /\ pc[c] = "body"
        /\ cursor[c] = Start
        /\ loc[c].existingMeta.status = "running"
        /\ hist[c].admittedAt - loc[c].existingMeta.last_started_at >= GuardWindowMin
        /\ meta.last_started_at = hist[c].admittedAt

\* C3: while a refresh admitted less than 5 minutes ago has neither
\* completed nor failed, no other initial invocation is admitted: two
\* refreshes in progress were admitted at least 5 minutes apart.
C3_OneRefreshAtATime ==
    \A a, b \in Callers :
        (a # b /\ hist[a].active /\ hist[b].active
              /\ hist[a].admittedAt <= hist[b].admittedAt)
            => hist[b].admittedAt - hist[a].admittedAt >= GuardWindowMin

\* C4: the check decides on the record the invocation read, not on the
\* record as it is when the check runs: an initial invocation that read a
\* passing status is admitted although another initial invocation has
\* since written 'running' with a fresh last_started_at.
C4_CheckUsesStaleRead ==
    [][\A c \in Callers :
          (/\ GuardStep(c)
           /\ ~ReadRunningFresh(c)
           /\ meta.status = "running"
           /\ now - meta.last_started_at < GuardWindowMin)
          => /\ pc'[c] = "body"
             /\ hist'[c].active
             /\ hist'[c].admittedAt = now]_vars

\* both initial invocations read the status before either wrote, both
\* passed the check and both are in the first chunk of collection 0
C4_Witness ==
    /\ \A c \in Callers :
          /\ cursor[c] = Start
          /\ pc[c] = "load"
          /\ loc[c].existingMeta.status = "absent"
          /\ hist[c].active
    /\ meta.status = "running"

----------------------------------------------------------------------------
(* Properties of one invocation and of a sequential run *)

\* the store's token list of collection index i
StoredList(i) ==
    OrderByTokenId(TokenIdsOfType(entries, CollectionAt(i).nftType))

\* caller c holds the answer of its last invocation, a next cursor, and has
\* not called again
HoldsNextCursor(c) ==
    /\ pc[c] = "none"
    /\ phase[c] = "ready"
    /\ resp[c].status = 200
    /\ ~resp[c].completed

\* C5: an invocation at (i, off), i < 2, over a stored list of n tokens
\* fetches the points of exactly the tokens at positions [off, min(off+800, n))
\* and answers completed=false with (i, off+800) if off+800 < n, and with
\* (i+1, 0) otherwise.
C5_ChunkBoundary ==
    \A c \in Callers :
        HoldsNextCursor(c) =>
            LET i == resp[c].sent[1]
                off == resp[c].sent[2]
                list == StoredList(i)
                n == Len(list)
            IN  /\ i \in {0, 1}
                /\ resp[c].ok
                /\ resp[c].fetched =
                      {list[j] : j \in (off + 1) .. Min(off + CHUNK_SIZE, n)}
                /\ << resp[c].nextCollection, resp[c].nextOffset >> =
                      IF off + CHUNK_SIZE < n
                      THEN << i, off + CHUNK_SIZE >> ELSE << i + 1, 0 >>

\* the second invocation over the 1000-token collection: [800, 1000)
C5_Witness ==
    \E c \in Callers :
        /\ HoldsNextCursor(c)
        /\ hist[c].fromStart
        /\ resp[c].sent = << 1, CHUNK_SIZE >>
        /\ Len(StoredList(1)) = MaxTokens - 1
        /\ Cardinality(resp[c].fetched) = MaxTokens - 1 - CHUNK_SIZE
        /\ cursor[c] = << 2, 0 >>

\* caller c's invocation takes its collection-lookup step
BodyStep(c) == pc[c] = "body" /\ pc'[c] # "body"

\* caller c receives an answer
Answered(c) == pc[c] # "none" /\ pc'[c] = "none"

\* C6: an invocation whose collection index is past the two collections
\* sets status 'idle', stamps last_completed_at, clears last_error, answers
\* {ok: true, completed: true}, writes no entry and issues no upstream
\* request; no other path answers completed: true.
C6_CompletionOnlyPastLast ==
    [][\A c \in Callers :
          /\ (BodyStep(c) /\ cursor[c][1] >= 2) =>
                /\ meta'.status = "idle"
                /\ meta'.last_completed_at = now
                /\ meta'.last_error = NULL
                /\ meta'.last_started_at = meta.last_started_at
                /\ Answered(c)
                /\ resp'[c].status = 200
                /\ resp'[c].ok
                /\ resp'[c].completed
                /\ resp'[c].calls = {}
                /\ resp'[c].fetched = {}
                /\ entries' = entries
          /\ (Answered(c) /\ resp'[c].completed) =>
                (pc[c] = "body" /\ cursor[c][1] >= 2)]_vars

\* a refresh that had recorded an error was completed by a call past the
\* last collection
C6_Witness ==
    \E c \in Callers :
        /\ phase[c] = "done"
        /\ resp[c].completed
        /\ resp[c].sent[1] = 3
        /\ meta.status = "idle"
        /\ world.prior

\* invocations a collection of n stored tokens takes
ChunksOf(n) == IF n = 0 THEN 1 ELSE (n + CHUNK_SIZE - 1) \div CHUNK_SIZE

ExpectedInvocations ==
    ChunksOf(Len(StoredList(0))) + ChunksOf(Len(StoredList(1))) + 1

\* caller c's run from (0,0) has been answered completed: true
RunDone(c) == hist[c].fromStart /\ phase[c] = "done"

\* C7: a caller that starts at (0,0) and passes back every cursor it is
\* given, with no failing step and no other writer, is eventually answered
\* completed: true, having made max(1, ceil(n0/800)) + max(1, ceil(n1/800)) + 1
\* invocations.
C7_RunTerminates ==
    /\ (hist[1].fromStart /\ phase[1] # "done") ~> RunDone(1)
    /\ [](RunDone(1) => hist[1].invocations = ExpectedInvocations)

\* a run over 801 and 1001 stored tokens: 2 + 2 + 1 invocations
C7_Witness ==
    /\ RunDone(1)
    /\ Len(StoredList(0)) = CHUNK_SIZE + 1
    /\ Len(StoredList(1)) = MaxTokens
    /\ hist[1].invocations = 5

\* C8: in a sequential run from (0,0) to completion every row of the store
\* has its points fetched exactly once and written exactly once.
C8_EveryTokenOnce ==
    \A c \in Callers :
        RunDone(c) =>
            /\ hist[c].fetched = {KeyOf(r) : r \in entries}
            /\ hist[c].refetched = {}
            /\ hist[c].written = hist[c].fetched
            /\ hist[c].rewritten = {}

\* a completed run that covered a row of an earlier run which the upstream
\* no longer lists, in a collection of more than one chunk
C8_Witness ==
    \E c \in Callers :
        /\ RunDone(c)
        /\ world.prior
        /\ world.mythicseed > CHUNK_SIZE
        /\ << "mythicseed", MaxTokens >> \in hist[c].fetched

\* key and points of every row
PointsOf(table) ==
    {<< r.collection_slug, r.token_id, r.points >> : r \in table}

\* one collection done in one go: the token list is read once and kept in
\* memory while all of its points are fetched
OnePassCollection(table, i) ==
    LET slug == CollectionAt(i).slug
        nftType == CollectionAt(i).nftType
        withMeta == StoreMetadata(table, slug, nftType, FetchAllNFTs(slug),
                                  FetchListedTokenIds(slug), 0)
        list == LoadTokenIds(TokenIdsOfType(withMeta, nftType), 0, << >>)
        pts == [t \in {list[j] : j \in DOMAIN list} |->
                   FetchPointsWithRetry(t, nftType, RefreshRetries)]
    IN  IF Len(list) = 0 THEN withMeta
        ELSE UpsertEntries(withMeta, slug, PointsUpdates(slug, nftType, pts))

\* the refresh as one uninterrupted pass over both collections
OnePass(table) == OnePassCollection(OnePassCollection(table, 0), 1)

\* C9: a run made of separate invocations that share nothing but the store
\* and the cursor ends with the points, for every token, that one
\* uninterrupted pass from the same store gives.
C9_ResumableEqualsOnePass ==
    \A c \in Callers :
        RunDone(c) => PointsOf(entries) = PointsOf(OnePass(hist[c].store0))

\* a completed run of five invocations over a store with earlier rows
C9_Witness ==
    \E c \in Callers :
        /\ RunDone(c)
        /\ hist[c].invocations = 5
        /\ hist[c].store0 # {}

\* key and metadata of every row
MetaOf(table) ==
    {<< r.collection_slug, r.token_id, r.image_url, r.opensea_url, r.is_listed >> :
        r \in table}

\* caller c's invocation takes a turn of its metadata loop
MetaStep(c) ==
    pc[c] = "meta" /\ << pc'[c], loc'[c].i >> # << pc[c], loc[c].i >>

\* C10: the metadata step of a collection applied again, against the same
\* upstream data, leaves the number of rows and every row's
\* (image_url, opensea_url, is_listed) as they were.
C10_MetadataIdempotent ==
    [][\A c \in Callers :
          (/\ MetaStep(c)
           /\ hist[c].metaApplied[CollectionAt(cursor[c][1]).slug] >= 1)
          => /\ Cardinality(entries') = Cardinality(entries)
             /\ MetaOf(entries') = MetaOf(entries)]_vars

\* the metadata step of the 800-token collection has been applied twice
C10_Witness ==
    \E c \in Callers :
        /\ pc[c] = "load"
        /\ cursor[c] = Start
        /\ hist[c].metaApplied["ancientseed"] = 2
        /\ world.ancientseed = CHUNK_SIZE
        /\ \E r \in entries : r.collection_slug = "ancientseed" /\ r.points > 0

----------------------------------------------------------------------------
(* The handler's catch block *)

\* a step of caller c's invocation throws
Throws(c) ==
    pc[c] \in {"body", "load"} /\ pc'[c] = "none" /\ faults' = faults + 1

\* C11: an exception at a step after the guard sets status 'error', records
\* last_error, leaves last_started_at and last_completed_at as they were and
\* answers 500 {ok: false} in that same step, with no next cursor and no
\* further attempt at the step.
C11_FailureRecorded ==
    [][\A c \in Callers :
          Throws(c) =>
              /\ meta'.status = "error"
              /\ meta'.last_error # NULL
              /\ meta'.last_started_at = meta.last_started_at
              /\ meta'.last_completed_at = meta.last_completed_at
              /\ resp'[c].status = 500
              /\ ~resp'[c].ok
              /\ ~resp'[c].completed
              /\ resp'[c].nextCollection = NoIndex
              /\ resp'[c].nextOffset = NoIndex
              /\ cursor'[c] = cursor[c]
              /\ hist'[c].invocations = hist[c].invocations
              /\ entries' = entries]_vars

\* an admitted refresh failed on the fetch of its NFTs: the record says
\* error and still carries the start stamp of the admission
C11_Witness ==
    \E c \in Callers :
        /\ phase[c] = "failed"
        /\ resp[c].status = 500
        /\ meta.status = "error"
        /\ meta.last_error = "fetch failed"
        /\ hist[c].admittedAt # NoTime
        /\ meta.last_started_at = hist[c].admittedAt


----------------------------------------------------------------------------
(* The points service, and the clients of it run on their own *)

RepairRetries == 5

orchVars ==
    << now, meta, entries, world, cursor, phase, starts, pc, loc, resp,
       faults, hist >>

\* no refresh is invoked while a client, pool or endpoint runs on its own
OrchestratorOff ==
    /\ now = Epoch
    /\ pc = [c \in Callers |-> "none"]
    /\ loc = [c \in Callers |-> NoLocals]
    /\ resp = [c \in Callers |-> NoResp]
    /\ faults = 0
    /\ starts = [c \in Callers |-> 1]
    /\ world \in SmallWorlds
    /\ meta = NoMeta
    /\ entries = {}
    /\ cursor = [c \in Callers |-> Start]
    /\ phase = [c \in Callers |-> "off"]
    /\ hist = [c \in Callers |-> NewRun(FALSE)]

\* A JSON body of the points service: a field is << >> when it is absent
\* and << v >> when it holds v.
NoBody == [points |-> << >>, totalPoints |-> << >>, stakingPoints |-> << >>]

\* the service reports points as an unsigned number
PointsValues == {0, 2}

PointsBodies ==
    {[NoBody EXCEPT !.points = << p >>] : p \in PointsValues}
        \cup {[NoBody EXCEPT !.totalPoints = << 3 >>]}

\* fetch() rejects
NetworkFault == [fault |-> TRUE, status |-> 0, body |-> NoBody]

StatusReply(status) == [fault |-> FALSE, status |-> status, body |-> NoBody]

OkReply(body) == [fault |-> FALSE, status |-> 200, body |-> body]

NotFound == StatusReply(404)

ServerError == StatusReply(500)

\* what the points service may do with one request
UpstreamReplies ==
    {NetworkFault, NotFound, ServerError} \cup {OkReply(b) : b \in PointsBodies}

\* Response.ok
IsOk(r) == ~r.fault /\ r.status >= 200 /\ r.status <= 299

\* data.points ?? 0
PointsNullish(body) ==
    IF body.points # << >> THEN body.points[1] ELSE 0

\* data.points ?? data.totalPoints ?? data.stakingPoints ?? 0
PointsOrTotalNullish(body) ==
    IF body.points # << >> THEN body.points[1]
    ELSE IF body.totalPoints # << >> THEN body.totalPoints[1]
    ELSE IF body.stakingPoints # << >> THEN body.stakingPoints[1]
    ELSE 0

\* data.points !== undefined ? data.points
\*                           : (data.totalPoints || data.stakingPoints || 0)
PointsOrTotalFalsy(body) ==
    IF body.points # << >> THEN body.points[1]
    ELSE IF body.totalPoints # << >> /\ body.totalPoints[1] # 0
         THEN body.totalPoints[1]
    ELSE IF body.stakingPoints # << >> /\ body.stakingPoints[1] # 0
         THEN body.stakingPoints[1]
    ELSE 0

\* the client that stops at the first reply without a value
GiveUp(attempt, retries) == [done |-> TRUE, value |-> 0]

\* the loop goes on to the next attempt, or falls out of it to "return 0"
KeepTrying(attempt, retries) == [done |-> attempt >= retries, value |-> 0]

Returned(points) == [done |-> TRUE, value |-> points]

\* one iteration of the refresh path's fetchPointsWithRetry
RefreshAttempt(r, attempt, retries) ==
    IF r.fault THEN KeepTrying(attempt, retries)
    ELSE IF IsOk(r)
         THEN LET points == PointsNullish(r.body) IN
              IF points = 0 /\ attempt < retries
              THEN KeepTrying(attempt, retries)
              ELSE Returned(points)
         ELSE KeepTrying(attempt, retries)

\* one iteration of the repair path's fetchPointsWithRetry
RepairAttempt(r, attempt, retries) ==
    IF r.fault THEN KeepTrying(attempt, retries)
    ELSE IF IsOk(r)
         THEN LET points == PointsOrTotalNullish(r.body) IN
              IF points > 0
              THEN Returned(points)
              ELSE KeepTrying(attempt, retries)
         ELSE KeepTrying(attempt, retries)

\* the value a client reads in a reply
Parsed(path, r) ==
    IF path = "refresh" THEN PointsNullish(r.body) ELSE PointsOrTotalNullish(r.body)

\* the reply reports a strictly positive value to the client
Positive(path, r) == IsOk(r) /\ Parsed(path, r) > 0

\* a call of fetchPointsWithRetry about to make its first attempt
RetryCall(path, retries) ==
    [kind |-> "retry", path |-> path, retries |-> retries, attempt |-> 1,
     served |-> << >>, done |-> FALSE, value |-> 0]

AfterAttempt(r, out) ==
    [comp EXCEPT !.served = Append(@, r),
                 !.done = out.done,
                 !.value = out.value,
                 !.attempt = IF out.done THEN @ ELSE @ + 1]

\* The refresh path's client makes one request and handles the reply.
RefreshClientStep ==
    /\ comp.kind = "retry"
    /\ comp.path = "refresh"
    /\ ~comp.done
    /\ \E r \in UpstreamReplies :
          comp' = AfterAttempt(r, RefreshAttempt(r, comp.attempt, comp.retries))
    /\ UNCHANGED orchVars

\* The repair path's client makes one request and handles the reply.
RepairClientStep ==
    /\ comp.kind = "retry"
    /\ comp.path = "repair"
    /\ ~comp.done
    /\ \E r \in UpstreamReplies :
          comp' = AfterAttempt(r, RepairAttempt(r, comp.attempt, comp.retries))
    /\ UNCHANGED orchVars

----------------------------------------------------------------------------
(* Values of a request body, and the single-token endpoint *)

Undefined == [type |-> "undefined", chars |-> << >>]

Str(chars) == [type |-> "string", chars |-> chars]

Num(chars) == [type |-> "number", chars |-> chars]

Digits == {"0", "1", "2", "3", "4", "5", "6", "7", "8", "9"}

MaxTokenIdLength == 20

Mythic == Str(<< "M", "y", "t", "h", "i", "c" >>)

Ancient == Str(<< "A", "n", "c", "i", "e", "n", "t" >>)

Legend == Str(<< "L", "e", "g", "e", "n", "d" >>)

Repeat(ch, n) == [k \in 1 .. n |-> ch]

\* tokenId values a request may carry
TokenIdInputs ==
    {Undefined, Str(<< >>), Str(<< "7" >>), Str(<< "1", "a" >>), Num(<< "7" >>),
     Str(Repeat("9", MaxTokenIdLength)), Str(Repeat("9", MaxTokenIdLength + 1))}

\* nftType values a request may carry
NftTypeInputs == {Undefined, Str(<< >>), Mythic, Ancient, Legend}

\* typeof value === 'string' && value.length > 0 && value.length <= 20
\*     && /^[0-9]+$/.test(value)
isValidTokenId(value) ==
    /\ value.type = "string"
    /\ Len(value.chars) > 0
    /\ Len(value.chars) <= MaxTokenIdLength
    /\ \A k \in 1 .. Len(value.chars) : value.chars[k] \in Digits

isValidNftType(value) == value = Mythic \/ value = Ancient

\* !value is false
Truthy(value) ==
    \/ value.type = "string" /\ value.chars # << >>
    \/ value.type = "number" /\ value.chars # << "0" >>

NoResponse == [status |-> 0, points |-> << >>, error |-> FALSE]

PointsResponse(points) == [status |-> 200, points |-> << points >>, error |-> FALSE]

BadRequest == [status |-> 400, points |-> << >>, error |-> TRUE]

ProxyFailed == [status |-> 500, points |-> << 0 >>, error |-> TRUE]

\* the request passes the check of the staking-points handler
ProxyAccepts(req) == Truthy(req.tokenId) /\ Truthy(req.nftType)

\* the response of the staking-points handler to an accepted request
ProxyResponse(r) ==
    IF r.fault THEN ProxyFailed
    ELSE IF r.status = 404 THEN PointsResponse(0)
    ELSE IF ~IsOk(r) THEN PointsResponse(0)
    ELSE PointsResponse(PointsOrTotalFalsy(r.body))

ProxyCall(req) ==
    [kind |-> "proxy", req |-> req, sent |-> << >>, served |-> << >>,
     response |-> NoResponse]

\* The staking-points handler serves one request.
ProxyServe ==
    /\ comp.kind = "proxy"
    /\ comp.response = NoResponse
    /\ IF ProxyAccepts(comp.req)
       THEN \E r \in UpstreamReplies :
               comp' = [comp EXCEPT
                            !.sent = << [id |-> comp.req.tokenId,
                                         type |-> comp.req.nftType] >>,
                            !.served = << r >>,
                            !.response = ProxyResponse(r)]
       ELSE comp' = [comp EXCEPT !.response = BadRequest]
    /\ UNCHANGED orchVars


----------------------------------------------------------------------------
(* asyncPool and the batch endpoint *)

MaxItems == 4

BatchPoolLimit == 6

MAX == 50

\* the outcome of fetchPoints: a value, or an exception when fetch() rejects
FetchPoints(r) ==
    IF r.fault THEN [threw |-> TRUE, value |-> 0]
    ELSE IF r.status = 404 THEN [threw |-> FALSE, value |-> 0]
    ELSE IF ~IsOk(r) THEN [threw |-> FALSE, value |-> 0]
    ELSE [threw |-> FALSE, value |-> PointsOrTotalFalsy(r.body)]

\* the callback the batch handler hands to asyncPool: fetchPoints in a
\* try/catch that answers 0
PointsCallback(r) ==
    IF FetchPoints(r).threw THEN [threw |-> FALSE, value |-> 0]
    ELSE FetchPoints(r)

Array(items) == [type |-> "array", chars |-> items]

\* the tokenId written with the one digit k
TokenNumeral(k) == Str(<< ToString(k) >>)

\* array.slice(0, n)
SliceTo(items, n) == SubSeq(items, 1, Min(Len(items), n))

BatchNoResponse == [status |-> 0, pointsById |-> << >>, error |-> FALSE]

BatchBadRequest == [status |-> 400, pointsById |-> << >>, error |-> TRUE]

BatchFailed == [status |-> 500, pointsById |-> << >>, error |-> TRUE]

\* pointsById after "for (const r of results) pointsById[r.tokenId] = r.points"
PointsById(results) ==
    [t \in {results[j].tokenId : j \in 1 .. Len(results)} |->
        LET last == CHOOSE j \in 1 .. Len(results) :
                        /\ results[j].tokenId = t
                        /\ \A k \in j + 1 .. Len(results) : results[k].tokenId # t
        IN results[last].points]

BatchOk(results) ==
    [status |-> 200, pointsById |-> PointsById(results), error |-> FALSE]

\* asyncPool(poolLimit, array, iteratorFn) at its first statement
PoolCall(site, req, upstream, poolLimit, array) ==
    [kind |-> "pool", site |-> site, req |-> req, upstream |-> upstream,
     poolLimit |-> poolLimit, array |-> array, i |-> 0, loop |-> "sync",
     op |-> [j \in 1 .. Len(array) |-> "none"],
     executing |-> {}, started |-> << >>, sent |-> << >>,
     value |-> [j \in 1 .. Len(array) |-> << >>],
     result |-> << >>, response |-> BatchNoResponse]

\* a request the batch handler has not looked at yet
BatchCall(req, upstream) ==
    [PoolCall("batch", req, upstream, 0, << >>) EXCEPT !.loop = "handler"]

InFlight == {j \in 1 .. Len(comp.array) : comp.op[j] = "running"}

AllFulfilled(op) == \A j \in DOMAIN op : op[j] = "fulfilled"

\* The batch handler checks the request body and calls asyncPool.
BatchAccept ==
    /\ comp.kind = "pool"
    /\ comp.loop = "handler"
    /\ comp.response = BatchNoResponse
    /\ IF comp.req.tokenIds.type # "array" \/ ~isValidNftType(comp.req.nftType)
       THEN comp' = [comp EXCEPT !.response = BatchBadRequest]
       ELSE LET cleaned == SelectSeq(comp.req.tokenIds.chars, isValidTokenId)
                sliced == SliceTo(cleaned, MAX)
            IN comp' = PoolCall("batch", comp.req, comp.upstream,
                                BatchPoolLimit, sliced)
    /\ UNCHANGED orchVars

\* the pool that never waits for a free slot
NeverAwaits(poolLimit, length, executing) == FALSE

\* the iteration ends in "await Promise.race(executing)"
AwaitsRace(poolLimit, length, executing) ==
    poolLimit <= length /\ Cardinality(executing) >= poolLimit

\* One iteration of the for loop of asyncPool, up to its await or to the
\* next iteration.
PoolIterate ==
    /\ comp.kind = "pool"
    /\ comp.loop = "sync"
    /\ comp.i < Len(comp.array)
    /\ LET j == comp.i + 1
           tracked == comp.poolLimit <= Len(comp.array)
           executing1 == IF tracked THEN comp.executing \cup {j}
                         ELSE comp.executing
       IN comp' = [comp EXCEPT
                       !.i = j,
                       !.op[j] = "scheduled",
                       !.executing = executing1,
                       !.loop = IF AwaitsRace(comp.poolLimit, Len(comp.array), executing1)
                                THEN "race" ELSE "sync"]
    /\ UNCHANGED orchVars

\* the results of Promise.all(ret), in the order of ret
Results(value) == [j \in DOMAIN value |-> value[j][1]]

\* The loop is over: return Promise.all(ret).
PoolAwaitAll ==
    /\ comp.kind = "pool"
    /\ comp.loop = "sync"
    /\ comp.i = Len(comp.array)
    /\ comp' = IF AllFulfilled(comp.op)
               THEN [comp EXCEPT !.loop = "resolved", !.result = Results(comp.value)]
               ELSE [comp EXCEPT !.loop = "all"]
    /\ UNCHANGED orchVars

\* The microtask of the oldest promise not yet run calls iteratorFn, which
\* sends its request.
OpStart ==
    /\ comp.kind = "pool"
    /\ comp.loop \in {"race", "all"}
    /\ \E j \in 1 .. Len(comp.array) :
          /\ comp.op[j] = "scheduled"
          /\ \A k \in 1 .. j - 1 : comp.op[k] # "scheduled"
          /\ comp' = [comp EXCEPT !.op[j] = "running",
                                  !.started = Append(@, j),
                                  !.sent = Append(@, comp.array[j])]
    /\ UNCHANGED orchVars

\* An operation in flight settles, and every promise reaction that follows
\* from it runs: the splice of executing, the race or the Promise.all the
\* pool is waiting on.
OpSettle ==
    /\ comp.kind = "pool"
    /\ comp.loop \in {"race", "all", "rejected"}
    /\ \A k \in 1 .. Len(comp.array) : comp.op[k] # "scheduled"
    /\ \E j \in InFlight, r \in comp.upstream :
          LET out == IF comp.site = "batch" THEN PointsCallback(r)
                     ELSE FetchPoints(r)
              op1 == [comp.op EXCEPT
                          ![j] = IF out.threw THEN "rejected" ELSE "fulfilled"]
              value1 == IF out.threw THEN comp.value
                        ELSE [comp.value EXCEPT
                                  ![j] = << [tokenId |-> comp.array[j],
                                            points |-> out.value] >>]
              loop1 == IF comp.loop = "rejected" THEN "rejected"
                       ELSE IF out.threw THEN "rejected"
                       ELSE IF comp.loop = "race" THEN "sync"
                       ELSE IF AllFulfilled(op1) THEN "resolved"
                       ELSE "all"
          IN comp' = [comp EXCEPT
                          !.op = op1,
                          !.value = value1,
                          !.executing = IF out.threw THEN @ ELSE @ \ {j},
                          !.loop = loop1,
                          !.result = IF loop1 = "resolved" THEN Results(value1)
                                     ELSE @]
    /\ UNCHANGED orchVars

\* The batch handler answers once asyncPool has settled.
BatchRespond ==
    /\ comp.kind = "pool"
    /\ comp.site = "batch"
    /\ comp.loop \in {"resolved", "rejected"}
    /\ comp.response = BatchNoResponse
    /\ comp' = [comp EXCEPT
                    !.response = IF comp.loop = "resolved"
                                 THEN BatchOk(comp.result)
                                 ELSE BatchFailed]
    /\ UNCHANGED orchVars


----------------------------------------------------------------------------
(* The batch loops of fetchPointsChunk and processChunk, and loadNFTs      *)
(* The tokens of a batch differ only in how far their fetchPointsWithRetry *)
(* has got, so a batch is kept as the number of tokens at each point of it.*)

ExtraTokens == 1

MaxFailures == 5

RefreshConcurrency == 25

RepairConcurrency == 15

RECURSIVE Sum(_, _)
Sum(f, n) == IF n = 0 THEN 0 ELSE f[n] + Sum(f, n - 1)

\* fetchPointsChunk or processChunk entering its for loop over a chunk of
\* the given length
ChunkCall(path, concurrency, retries, length) ==
    [kind |-> "chunk", path |-> path, concurrency |-> concurrency,
     retries |-> retries, length |-> length, i |-> 0, stage |-> "loop",
     size |-> 0,
     fly |-> [a \in 1 .. retries |-> 0],
     nap |-> [a \in 1 .. retries |-> 0],
     settled |-> 0, failures |-> 0]

\* requests of the batch in flight
Flying(c) == Sum(c.fly, c.retries)

\* tokens of the batch between two attempts
Napping(c) == Sum(c.nap, c.retries)

\* Promise.all of the batch's promises is fulfilled
BatchSettledAny(c) == c.settled >= 1

BatchSettled(c) == c.settled = c.size

\* The for loop takes the next batch and starts fetchPointsWithRetry for
\* each of its tokens, or ends.
ChunkNext ==
    /\ comp.kind = "chunk"
    /\ comp.stage = "loop"
    /\ comp' = IF comp.i < comp.length
               THEN LET size == Min(comp.concurrency, comp.length - comp.i) IN
                    [comp EXCEPT !.stage = "batch",
                                 !.size = size,
                                 !.settled = 0,
                                 !.fly[1] = @ + size]
               ELSE [comp EXCEPT !.stage = "returned"]
    /\ UNCHANGED orchVars

\* what a reply means to the client at its a-th attempt: whether it carries
\* a value, and whether fetchPointsWithRetry returns on it
ReplyKinds(path, a, retries) ==
    {[good |-> Positive(path, r),
      done |-> IF path = "refresh" THEN RefreshAttempt(r, a, retries).done
               ELSE RepairAttempt(r, a, retries).done] : r \in UpstreamReplies}

\* The reply to the a-th request of one token arrives: its
\* fetchPointsWithRetry returns, or goes to sleep before the next attempt.
\* At most MaxFailures replies of a call carry no value.
ChunkReply ==
    /\ comp.kind = "chunk"
    /\ \E a \in 1 .. comp.retries :
          /\ comp.fly[a] > 0
          /\ \E out \in ReplyKinds(comp.path, a, comp.retries) :
                /\ out.good \/ comp.failures < MaxFailures
                /\ LET failures1 == IF out.good THEN comp.failures
                                    ELSE comp.failures + 1
                   IN comp' = IF out.done
                              THEN [comp EXCEPT !.fly[a] = @ - 1,
                                                !.settled = @ + 1,
                                                !.failures = failures1]
                              ELSE [comp EXCEPT !.fly[a] = @ - 1,
                                                !.nap[a] = @ + 1,
                                                !.failures = failures1]
    /\ UNCHANGED orchVars

\* The delay of one token is over: it sends its next request.
ChunkWake ==
    /\ comp.kind = "chunk"
    /\ \E a \in 1 .. comp.retries - 1 :
          /\ comp.nap[a] > 0
          /\ comp' = [comp EXCEPT !.nap[a] = @ - 1, !.fly[a + 1] = @ + 1]
    /\ UNCHANGED orchVars

\* The await of the batch returns and the loop steps by the concurrency.
ChunkBatchDone ==
    /\ comp.kind = "chunk"
    /\ comp.stage = "batch"
    /\ BatchSettled(comp)
    /\ comp' = [comp EXCEPT !.stage = "loop", !.i = @ + comp.concurrency]
    /\ UNCHANGED orchVars

\* loadNFTs after fetchNFTListings returned the given number of listings,
\* each with a tokenId of its own
ViewerCall(length) ==
    [kind |-> "viewer", length |-> length, stage |-> "map", flying |-> 0,
     settled |-> 0]

\* Promise.all(fetchedListings.map(...)): fetchStakingPoints is called for
\* every listing, and each call invokes the staking-points function.
ViewerMap ==
    /\ comp.kind = "viewer"
    /\ comp.stage = "map"
    /\ comp' = [comp EXCEPT !.stage = "all", !.flying = comp.length]
    /\ UNCHANGED orchVars

\* One invocation returns; fetchStakingPoints caches and returns a number.
ViewerReply ==
    /\ comp.kind = "viewer"
    /\ comp.stage = "all"
    /\ comp.flying > 0
    /\ comp' = [comp EXCEPT !.flying = @ - 1, !.settled = @ + 1]
    /\ UNCHANGED orchVars

\* Every call has returned: the listings are shown.
ViewerDone ==
    /\ comp.kind = "viewer"
    /\ comp.stage = "all"
    /\ comp.settled = comp.length
    /\ comp' = [comp EXCEPT !.stage = "shown"]
    /\ UNCHANGED orchVars

----------------------------------------------------------------------------
(* Specifications of the components run on their own *)

Requests == {[tokenId |-> t, nftType |-> n] : t \in TokenIdInputs, n \in NftTypeInputs}

\* arrays of tokenIds a batch request may carry
TokenArrays ==
    {<< >>, << TokenNumeral(7) >>, << TokenNumeral(7), Str(<< "1", "a" >>) >>,
     << Num(<< "7" >>), TokenNumeral(8), TokenNumeral(8) >>,
     [k \in 1 .. BatchPoolLimit + ExtraTokens |-> TokenNumeral(k)]}

BatchRequests ==
    {[tokenIds |-> t, nftType |-> n] :
        t \in {Undefined, TokenNumeral(7)} \cup {Array(a) : a \in TokenArrays},
        n \in NftTypeInputs}

SomePoints == OkReply([NoBody EXCEPT !.points = << 2 >>])

MixedReplies == {NotFound, NetworkFault, SomePoints}

\* what the points service does in one behaviour: one answer to every
\* request, or any of three
UpstreamModes ==
    {{NotFound}, {ServerError}, {NetworkFault}, {SomePoints}, MixedReplies}

\* the service answers freely only when few requests are made
ModesFor(tokenIds) ==
    IF tokenIds.type = "array" /\ Len(tokenIds.chars) > MaxItems
    THEN UpstreamModes \ {MixedReplies}
    ELSE UpstreamModes

RetryCalls ==
    {RetryCall("refresh", RefreshRetries), RetryCall("repair", RepairRetries)}

ProxyCalls == {ProxyCall(req) : req \in Requests}

BatchCalls ==
    UNION {{BatchCall(req, up) : up \in ModesFor(req.tokenIds)} :
              req \in BatchRequests}

\* asyncPool over fetchPoints itself, an operation that may reject
RawPoolCalls ==
    {PoolCall("raw",
              [tokenIds |-> Array([k \in 1 .. n |-> TokenNumeral(k)]),
               nftType |-> Mythic],
              MixedReplies, limit, [k \in 1 .. n |-> TokenNumeral(k)]) :
        n \in 0 .. MaxItems, limit \in 1 .. MaxItems + 1}

ChunkCalls ==
    {ChunkCall("refresh", RefreshConcurrency, RefreshRetries, n) :
        n \in {0, 1, RefreshConcurrency + ExtraTokens}}
    \cup {ChunkCall("repair", RepairConcurrency, RepairRetries, n) :
        n \in {0, 1, RepairConcurrency + ExtraTokens}}

ViewerCalls == {ViewerCall(n) : n \in {0, 1, RefreshConcurrency + ExtraTokens}}

InitPoints ==
    /\ OrchestratorOff
    /\ comp \in RetryCalls \cup ProxyCalls \cup BatchCalls \cup RawPoolCalls

NextPoints ==
    \/ RefreshClientStep
    \/ RepairClientStep
    \/ ProxyServe
    \/ BatchAccept
    \/ PoolIterate
    \/ PoolAwaitAll
    \/ OpStart
    \/ OpSettle
    \/ BatchRespond

SpecPoints == InitPoints /\ [][NextPoints]_vars

InitFanOut ==
    /\ OrchestratorOff
    /\ comp \in ChunkCalls \cup ViewerCalls
                    \cup {c \in BatchCalls : c.upstream = {SomePoints}}

NextFanOut ==
    \/ ChunkNext
    \/ ChunkReply
    \/ ChunkWake
    \/ ChunkBatchDone
    \/ ViewerMap
    \/ ViewerReply
    \/ ViewerDone
    \/ BatchAccept
    \/ PoolIterate
    \/ PoolAwaitAll
    \/ OpStart
    \/ OpSettle
    \/ BatchRespond

SpecFanOut == InitFanOut /\ [][NextFanOut]_vars


----------------------------------------------------------------------------
(* Claims about the points clients *)

\* the points service gave no value: 404, another non-OK status, or no
\* reply at all
Failing == {NotFound, ServerError, NetworkFault}

AllServed(replies) == \A k \in 1 .. Len(comp.served) : comp.served[k] \in replies

\* C12: in every points client (refresh path, repair path, single-token
\* endpoint, batch endpoint) a service that answers 404 and a service that
\* fails on every attempt both produce the value 0 and no error to the
\* caller.
C12_ZeroNormalization ==
    /\ comp.kind = "retry" /\ comp.done /\ AllServed(Failing)
          => comp.value = 0
    /\ comp.kind = "proxy" /\ comp.served # << >> /\ AllServed(Failing)
          => comp.response = PointsResponse(0)
    /\ comp.kind = "pool" /\ comp.site = "batch" /\ comp.upstream \subseteq Failing
          /\ comp.response # BatchNoResponse /\ comp.sent # << >>
          => /\ comp.response.status = 200
             /\ \A t \in DOMAIN comp.response.pointsById :
                   comp.response.pointsById[t] = 0

\* C13: fetchPointsWithRetry with N retries (3 on the refresh path, 5 on
\* the repair path) sends at most N requests, goes on after a non-OK reply,
\* after an OK reply with zero points and after a network fault, sends no
\* request once a reply reported a strictly positive value, and returns
\* the first such value, or 0 when no reply reported one.
C13_RetryUntilPositive ==
    comp.kind = "retry" =>
        LET n == Len(comp.served) IN
        /\ n <= comp.retries
        /\ comp.retries = IF comp.path = "refresh" THEN 3 ELSE 5
        /\ \A k \in 1 .. n - 1 : ~Positive(comp.path, comp.served[k])
        /\ ~comp.done => n < comp.retries /\ comp.attempt = n + 1
        /\ comp.done =>
              IF Positive(comp.path, comp.served[n])
              THEN comp.value = Parsed(comp.path, comp.served[n])
              ELSE n = comp.retries /\ comp.value = 0

\* the repair client met a fault, a non-OK reply and a zero, and then a value
C13_Witness ==
    /\ comp.kind = "retry"
    /\ comp.path = "repair"
    /\ comp.done
    /\ comp.served = << NetworkFault, ServerError,
                        OkReply([NoBody EXCEPT !.points = << 0 >>]),
                        SomePoints >>
    /\ comp.value = 2

\* the request carries a tokenId and an nftType the contract admits
ValidRequest(tokenId, nftType) == isValidTokenId(tokenId) /\ isValidNftType(nftType)

\* C20: a tokenId that is not a non-empty string of at most 20 digits, or
\* an nftType other than Ancient and Mythic, is answered with a client
\* error, and no request for it reaches the points service, at the
\* single-token endpoint and at the batch endpoint.
C20_InvalidInputRejected ==
    /\ comp.kind = "proxy" /\ comp.response # NoResponse
          /\ ~ValidRequest(comp.req.tokenId, comp.req.nftType)
          => comp.response.status = 400 /\ comp.sent = << >>
    /\ comp.kind = "pool" /\ comp.site = "batch" /\ comp.response # BatchNoResponse
          /\ (\/ comp.req.tokenIds.type # "array"
              \/ \E k \in 1 .. Len(comp.req.tokenIds.chars) :
                    ~ValidRequest(comp.req.tokenIds.chars[k], comp.req.nftType))
          => comp.response.status = 400 /\ comp.sent = << >>

\* every item's operation was started exactly once
StartedOnce ==
    /\ Len(comp.started) = Len(comp.array)
    /\ \A j \in 1 .. Len(comp.array) : \E k \in 1 .. Len(comp.started) : comp.started[k] = j

Settled(j) == comp.op[j] \in {"fulfilled", "rejected"}

----------------------------------------------------------------------------
(* Claims about the batch loops and the fan-out *)

\* the step sends the first requests of a batch
StartsBatch == comp.stage = "loop" /\ comp'.stage = "batch"

\* C18: within one call of the refresh points step (batches of 25) and of
\* the repair step (batches of 15), no request of a batch is sent before
\* every request of the batch before it, retries included, has settled,
\* and the requests in flight never exceed the batch size.
C18_BatchBarrier ==
    [][comp.kind = "chunk" /\ comp'.kind = "chunk" =>
          /\ StartsBatch => Flying(comp) = 0 /\ Napping(comp) = 0
          /\ Flying(comp') <= comp'.concurrency
          /\ comp'.concurrency = IF comp'.path = "refresh" THEN 25 ELSE 15]_vars

\* the second batch of a repair call is in flight, after retries in the first
C18_Witness ==
    /\ comp.kind = "chunk"
    /\ comp.path = "repair"
    /\ comp.stage = "batch"
    /\ comp.i = RepairConcurrency
    /\ comp.failures = MaxFailures
    /\ Flying(comp) = ExtraTokens

\* the points requests in flight
FanOut ==
    IF comp.kind = "chunk" THEN Flying(comp)
    ELSE IF comp.kind = "viewer" THEN comp.flying
    ELSE IF comp.kind = "pool" THEN Cardinality(InFlight)
    ELSE 0

\* C19: on every path that fetches points for a list of tokens, loadNFTs of
\* the viewer page included, the points requests in flight stay within a
\* fixed number whatever the length of the list: within 25, the largest
\* concurrency the program sets.
C19_BoundedFanOut == FanOut <= RefreshConcurrency


----------------------------------------------------------------------------
(* The paginating clients of the marketplace, run on their own *)

MaxPageItems == 1

ListingsMaxPages == 20

EndpointNftMaxPages == 50

ListedMaxPages == 20

maxRetries == 3

\* What the marketplace may do with one request for a page: fetch() rejects,
\* or a status with, on 200, some items and a next cursor or none.  The
\* items of different pages are different items, so a list of them is kept
\* as its length.
PageFault == [fault |-> TRUE, status |-> 0, items |-> 0, next |-> FALSE]

PageStatus(status) == [fault |-> FALSE, status |-> status, items |-> 0, next |-> FALSE]

PageOk(items, next) == [fault |-> FALSE, status |-> 200, items |-> items, next |-> next]

PageReplies ==
    {PageFault, PageStatus(429), PageStatus(500)}
        \cup {PageOk(n, next) : n \in 0 .. MaxPageItems, next \in BOOLEAN}

\* the clients: the listings endpoint, its earlier version, the NFT
\* endpoint, and the two functions of the refresh orchestrator
Pagers ==
    {[client |-> "opensea-listings", endpoint |-> TRUE, retry |-> TRUE,
      maxPages |-> ListingsMaxPages],
     [client |-> "opensea-listings-main", endpoint |-> TRUE, retry |-> FALSE,
      maxPages |-> ListingsMaxPages],
     [client |-> "opensea-nfts", endpoint |-> TRUE, retry |-> FALSE,
      maxPages |-> EndpointNftMaxPages],
     [client |-> "fetchAllNFTs", endpoint |-> FALSE, retry |-> FALSE,
      maxPages |-> NftMaxPages],
     [client |-> "fetchListedTokenIds", endpoint |-> FALSE, retry |-> FALSE,
      maxPages |-> ListedMaxPages]}

Fetched(r, requests) == [threw |-> FALSE, reply |-> r, requests |-> requests]

FetchThrew(r, requests) == [threw |-> TRUE, reply |-> r, requests |-> requests]

\* fetchWithRetry, raws[k] being what the marketplace does with the k-th request
RECURSIVE fetchWithRetry(_, _)
fetchWithRetry(raws, attempt) ==
    LET r == raws[attempt] IN
    IF r.fault
    THEN IF attempt < maxRetries THEN fetchWithRetry(raws, attempt + 1)
         ELSE FetchThrew(r, attempt)
    ELSE IF IsOk(r) \/ (r.status >= 400 /\ r.status < 500) THEN Fetched(r, attempt)
    ELSE IF r.status >= 500 /\ attempt < maxRetries
         THEN fetchWithRetry(raws, attempt + 1)
    ELSE Fetched(r, attempt)

\* fetch
PlainFetch(r) == IF r.fault THEN FetchThrew(r, 1) ELSE Fetched(r, 1)

\* what one page fetch of the client may give
PageFetches(pager) ==
    IF pager.retry
    THEN {fetchWithRetry(raws, 1) : raws \in [1 .. maxRetries -> PageReplies]}
    ELSE {PlainFetch(r) : r \in PageReplies}

\* the loop stops after this page whatever its cursor
ReachedCapLate(pageCount, maxPages) == pageCount > maxPages

ReachedCap(pageCount, maxPages) == pageCount >= maxPages

NoOutcome == [status |-> 0, items |-> 0, threw |-> FALSE]

\* the endpoint's 200 response, or the value a function returns
Success(items) == [status |-> 200, items |-> items, threw |-> FALSE]

\* the endpoint's error response
Failure(status) == [status |-> status, items |-> 0, threw |-> FALSE]

\* the function rejects
Thrown == [status |-> 0, items |-> 0, threw |-> TRUE]

PagerCall(pager) ==
    [kind |-> "pager", pager |-> pager, pageCount |-> 0, all |-> 0,
     requests |-> 0, endless |-> TRUE, served |-> 0,
     errorPage |-> 0, errorStatus |-> 0, before |-> 0,
     outcome |-> NoOutcome]

\* the loop after a page fetch that gave a non-OK response
AfterErrorStatus(c, f) ==
    IF c.pager.endpoint
    THEN IF c.all > 0 THEN Success(c.all) ELSE Failure(f.reply.status)
    ELSE Success(c.all)

\* the loop after a page fetch that threw
AfterThrow(c) == IF c.pager.endpoint THEN Failure(500) ELSE Thrown

\* One iteration of the do-while loop of a paginating client, and what
\* follows the loop when it ends.
PageStep ==
    /\ comp.kind = "pager"
    /\ comp.outcome = NoOutcome
    /\ \E f \in PageFetches(comp.pager) :
          LET pageCount1 == comp.pageCount + 1
              fetched == [comp EXCEPT !.pageCount = pageCount1,
                                      !.requests = @ + f.requests]
              failed == [fetched EXCEPT !.errorPage = pageCount1,
                                        !.errorStatus = f.reply.status,
                                        !.before = comp.all,
                                        !.endless = FALSE]
          IN IF f.threw
             THEN comp' = [failed EXCEPT !.outcome = AfterThrow(comp)]
             ELSE IF ~IsOk(f.reply)
             THEN comp' = [failed EXCEPT !.outcome = AfterErrorStatus(comp, f)]
             ELSE LET all1 == comp.all + f.reply.items
                      stop == ReachedCap(pageCount1, comp.pager.maxPages)
                                 \/ ~f.reply.next
                  IN comp' = [fetched EXCEPT
                                  !.all = all1,
                                  !.served = @ + f.reply.items,
                                  !.endless = @ /\ f.reply.next,
                                  !.outcome = IF stop THEN Success(all1)
                                              ELSE NoOutcome]
    /\ UNCHANGED orchVars

InitPages ==
    /\ OrchestratorOff
    /\ comp \in {PagerCall(pager) : pager \in Pagers}

NextPages == PageStep

SpecPages == InitPages /\ [][NextPages]_vars

----------------------------------------------------------------------------
(* Claims about pagination *)

Finished == comp.kind = "pager" /\ comp.outcome # NoOutcome

\* C14: against a marketplace that returns a next cursor with every page, a
\* paginating client fetches exactly maxPages pages (20 for listings, 50 for
\* collection NFTs) and returns everything those pages held; otherwise it
\* stops at the first page without a next cursor.
C14_PaginationCap ==
    comp.kind = "pager" =>
        /\ comp.pager.maxPages = IF comp.pager.client \in {"opensea-nfts", "fetchAllNFTs"}
                                 THEN 50 ELSE 20
        /\ comp.pageCount <= comp.pager.maxPages
        /\ Finished /\ comp.endless =>
              /\ comp.pageCount = comp.pager.maxPages
              /\ comp.outcome = Success(comp.served)
        /\ ~Finished => comp.endless /\ comp.pageCount < comp.pager.maxPages
        /\ Finished /\ ~comp.endless /\ comp.errorPage = 0 =>
              comp.outcome = Success(comp.served)

\* the NFT endpoint stopped at its cap with an item from every page
C14_Witness ==
    /\ Finished
    /\ comp.pager.client = "opensea-nfts"
    /\ comp.endless
    /\ comp.pageCount = EndpointNftMaxPages
    /\ comp.outcome.items = EndpointNftMaxPages * MaxPageItems

\* C15: in the listings and collection-NFT endpoints an upstream error on
\* page k gives a successful response with the items of pages 1..k-1 when
\* there is at least one, and a failure with the upstream status when there
\* is none (a failure of its own when the request got no response): no
\* error discards items already accumulated.
C15_PartialSuccess ==
    Finished /\ comp.pager.endpoint /\ comp.errorPage > 0 =>
        IF comp.before > 0
        THEN comp.outcome = Success(comp.before)
        ELSE /\ comp.outcome.items = 0
             /\ comp.outcome.status >= 400
             /\ comp.errorStatus # 0 => comp.outcome = Failure(comp.errorStatus)


----------------------------------------------------------------------------
(* removeDuplicateNFTs of the viewer's client *)

MaxListings == 3

\* A listing: id tells two listings of one token apart; tokenId and value
\* are << >> when the field is absent.  A price value is kept in ETH, the
\* unit getPriceValue converts to.
Listing(id, tokenId, value) == [id |-> id, tokenId |-> tokenId, value |-> value]

ListingTokens == {<< >>, << 1 >>, << 2 >>}

ListingValues == {<< >>, << 3 >>, << 5 >>, << 7 >>}

\* if (!listing.price?.current?.value) return 0; else the value as a number
getPriceValue(listing) ==
    IF listing.value = << >> THEN 0 ELSE listing.value[1]

\* the comparison that keeps the later of two listings of equal price
CheaperOrEqual(currentPrice, existingPrice) == currentPrice <= existingPrice

\* currentPrice < existingPrice
Cheaper(currentPrice, existingPrice) == currentPrice < existingPrice

\* nftMap.get(tokenId): the position of the key in the map, 0 when absent
MapIndex(nftMap, tokenId) ==
    IF \E k \in 1 .. Len(nftMap) : nftMap[k].tokenId = tokenId
    THEN CHOOSE k \in 1 .. Len(nftMap) : nftMap[k].tokenId = tokenId
    ELSE 0

\* the body of listings.forEach: a Map keeps its keys in insertion order,
\* and setting an existing key keeps the key's place
Collapse(nftMap, listing) ==
    IF listing.tokenId = << >> THEN nftMap
    ELSE LET k == MapIndex(nftMap, listing.tokenId) IN
         IF k = 0 THEN Append(nftMap, listing)
         ELSE IF Cheaper(getPriceValue(listing), getPriceValue(nftMap[k]))
              THEN [nftMap EXCEPT ![k] = listing]
              ELSE nftMap

RECURSIVE ForEach(_, _)
ForEach(listings, nftMap) ==
    IF listings = << >> THEN nftMap
    ELSE ForEach(Tail(listings), Collapse(nftMap, Head(listings)))

\* Array.from(nftMap.values())
removeDuplicateNFTs(listings) == ForEach(listings, << >>)

\* the lists fetchNFTListings may hand to removeDuplicateNFTs
ListingInputs ==
    UNION {{[k \in 1 .. n |-> Listing(k, tokens[k], values[k])] :
                tokens \in [1 .. n -> ListingTokens],
                values \in [1 .. n -> ListingValues]} : n \in 0 .. MaxListings}

DedupeCall(listings) ==
    [kind |-> "dedupe", listings |-> listings, done |-> FALSE, result |-> << >>]

\* removeDuplicateNFTs runs.
RemoveDuplicates ==
    /\ comp.kind = "dedupe"
    /\ ~comp.done
    /\ comp' = [comp EXCEPT !.done = TRUE,
                            !.result = removeDuplicateNFTs(comp.listings)]
    /\ UNCHANGED orchVars

InitDedupe ==
    /\ OrchestratorOff
    /\ comp \in {DedupeCall(listings) : listings \in ListingInputs}

NextDedupe == RemoveDuplicates

SpecDedupe == InitDedupe /\ [][NextDedupe]_vars

----------------------------------------------------------------------------
(* Claims about the duplicate collapse *)

TokensOf(listings) ==
    {listings[k].tokenId : k \in 1 .. Len(listings)} \ {<< >>}

\* the first of the cheapest listings of a token
FirstCheapest(listings, tokenId) ==
    CHOOSE k \in 1 .. Len(listings) :
        /\ listings[k].tokenId = tokenId
        /\ \A l \in 1 .. Len(listings) :
              listings[l].tokenId = tokenId =>
                  \/ getPriceValue(listings[k]) < getPriceValue(listings[l])
                  \/ getPriceValue(listings[k]) = getPriceValue(listings[l]) /\ k <= l

\* the price of each token in a list without duplicates
PriceMap(listings) ==
    {<< listings[k].tokenId, getPriceValue(listings[k]) >> : k \in 1 .. Len(listings)}

Reorderings(listings) ==
    {[k \in 1 .. Len(listings) |-> listings[f[k]]] :
        f \in {g \in [1 .. Len(listings) -> 1 .. Len(listings)] :
                  \A a, b \in 1 .. Len(listings) : g[a] = g[b] => a = b}}

ExampleListings ==
    << Listing(1, << 1 >>, << 5 >>), Listing(2, << 1 >>, << 3 >>),
       Listing(3, << 2 >>, << 7 >>) >>

\* C16: removeDuplicateNFTs returns exactly one listing per tokenId of the
\* input, the cheapest of that token, the first of them when prices tie;
\* the price of each token is the same for every order of the input;
\* [(1,5),(1,3),(2,7)] collapses to [(1,3),(2,7)].
C16_DuplicateCollapse ==
    comp.kind = "dedupe" /\ comp.done =>
        /\ Len(comp.result) = Cardinality(TokensOf(comp.listings))
        /\ \A t \in TokensOf(comp.listings) :
              \E k \in 1 .. Len(comp.result) :
                  comp.result[k] = comp.listings[FirstCheapest(comp.listings, t)]
        /\ \A other \in Reorderings(comp.listings) :
              PriceMap(removeDuplicateNFTs(other)) = PriceMap(comp.result)
        /\ comp.listings = ExampleListings =>
              comp.result = << ExampleListings[2], ExampleListings[3] >>

\* the example of the claim has been collapsed
C16_Witness ==
    /\ comp.kind = "dedupe"
    /\ comp.done
    /\ comp.listings = ExampleListings
    /\ Len(comp.result) = 2

----------------------------------------------------------------------------
(* The browser's repair loop, runZeroRepair, fed the replies of the
   retry-zeros step *)

MaxRemaining == 12

RepairMaxIterations == 12

\* what supabase.functions.invoke hands back: error is set for a non-2xx
\* answer, and a field of data is << >> when the body does not carry it
StepReply(error, completed, remainingZeros) ==
    [error |-> error, completed |-> completed,
     remainingZeros |-> remainingZeros]

\* the step found no row with points 0
StepNoZeros == StepReply(FALSE, TRUE, << >>)

\* the step made a pass and re-counted the rows with points 0
StepPass(remainingZeros) ==
    StepReply(FALSE, ~(remainingZeros > 0), << remainingZeros >>)

\* the step caught an error and answered 500
StepFailed == StepReply(TRUE, FALSE, << >>)

StepReplies ==
    {StepNoZeros, StepFailed} \cup {StepPass(n) : n \in 0 .. MaxRemaining}

\* typeof data?.remainingZeros === 'number' ? data.remainingZeros : null
RemainingOf(data) == data.remainingZeros

NoProgressStrict(remaining, lastRemaining) ==
    lastRemaining # << >> /\ remaining[1] > lastRemaining[1]

\* lastRemaining !== null && remaining >= lastRemaining
NoProgress(remaining, lastRemaining) ==
    lastRemaining # << >> /\ remaining[1] >= lastRemaining[1]

WithinCapInclusive(iterations) == iterations <= RepairMaxIterations

\* the loop condition
WithinCap(iterations) == iterations < RepairMaxIterations

RepairRunning == [state |-> "running", completed |-> FALSE, remaining |-> 0]

RepairReturned(completed, remaining) ==
    [state |-> "returned", completed |-> completed, remaining |-> remaining]

RepairThrew == [state |-> "threw", completed |-> FALSE, remaining |-> 0]

\* remaining ?? 0
OrZero(value) == IF value = << >> THEN 0 ELSE value[1]

ObservationWindow == 3

\* the last replies of a run, the newest last
Recent(replies) ==
    IF Len(replies) <= ObservationWindow THEN replies
    ELSE SubSeq(replies, Len(replies) - ObservationWindow + 1, Len(replies))

\* a pass that reports fewer rows with points 0 than the reply before it
Decreases(data, before) ==
    /\ ~data.error
    /\ data.remainingZeros # << >>
    /\ before # << >> =>
         /\ before[Len(before)].remainingZeros # << >>
         /\ data.remainingZeros[1] < before[Len(before)].remainingZeros[1]

\* seen and decreasing record the replies of the run for the properties:
\* the code keeps only lastRemaining and noProgressStreak
RepairLoop ==
    [kind |-> "repair", iterations |-> 0, lastRemaining |-> << >>,
     noProgressStreak |-> 0, outcome |-> RepairRunning, seen |-> << >>,
     decreasing |-> TRUE]

\* One turn of the while loop: the step is invoked and its reply handled
\* up to the return, the throw or the 600 ms pause.
RepairIterate ==
    /\ comp.kind = "repair"
    /\ comp.outcome = RepairRunning
    /\ WithinCap(comp.iterations)
    /\ \E data \in StepReplies :
         LET remaining == RemainingOf(data)
             streak == IF NoProgress(remaining, comp.lastRemaining)
                       THEN comp.noProgressStreak + 1
                       ELSE 0
             c == [comp EXCEPT !.iterations = @ + 1,
                               !.decreasing = @ /\ Decreases(data, comp.seen),
                               !.seen = Recent(Append(@, data))]
         IN comp' =
              IF data.error
              THEN [c EXCEPT !.outcome = RepairThrew]
              ELSE IF data.completed
              THEN [c EXCEPT !.outcome =
                                RepairReturned(TRUE, OrZero(remaining))]
              ELSE IF remaining = << >>
              THEN c
              ELSE [c EXCEPT
                      !.noProgressStreak = streak,
                      !.lastRemaining = remaining,
                      !.outcome = IF streak >= 2
                                  THEN RepairReturned(FALSE, remaining[1])
                                  ELSE @]
    /\ UNCHANGED orchVars

\* The loop condition fails: the function returns after the last pause.
RepairExhausted ==
    /\ comp.kind = "repair"
    /\ comp.outcome = RepairRunning
    /\ ~WithinCap(comp.iterations)
    /\ comp' = [comp EXCEPT !.outcome =
                    RepairReturned(FALSE, OrZero(comp.lastRemaining))]
    /\ UNCHANGED orchVars

InitRepair ==
    /\ OrchestratorOff
    /\ comp = RepairLoop

NextRepair ==
    \/ RepairIterate
    \/ RepairExhausted

\* every invocation of the step is answered, and every pause ends
SpecRepair ==
    InitRepair /\ [][NextRepair]_vars /\ WF_vars(NextRepair)

----------------------------------------------------------------------------
(* Claims about the repair loop *)

\* the k-th recorded reply is a pass that left rows with points 0
OpenPass(k) ==
    /\ k \in 1 .. Len(comp.seen)
    /\ ~comp.seen[k].error
    /\ ~comp.seen[k].completed
    /\ comp.seen[k].remainingZeros # << >>

\* the k-th recorded reply did not report fewer rows than the one before it
NotDecreased(k) ==
    /\ OpenPass(k)
    /\ OpenPass(k - 1)
    /\ comp.seen[k].remainingZeros[1] >= comp.seen[k - 1].remainingZeros[1]

\* the last two replies both failed to report fewer rows
StalledTwice ==
    /\ NotDecreased(Len(comp.seen))
    /\ NotDecreased(Len(comp.seen) - 1)

ConstantRun ==
    /\ comp.iterations = 3
    /\ \E n \in 1 .. MaxRemaining : comp.seen = << StepPass(n), StepPass(n), StepPass(n) >>

\* C21: the repair loop returns completed=false as soon as the reported
\* count of rows with points 0 has failed to decrease strictly on two
\* consecutive iterations, and not before; a constant sequence of counts
\* ends the loop at the second such observation, well before the twelfth
\* iteration; an observation that decreases strictly resets the streak.
C21_StallDetection ==
    comp.kind = "repair" =>
        LET n == Len(comp.seen)
        IN /\ StalledTwice =>
                comp.outcome =
                    RepairReturned(FALSE, comp.seen[n].remainingZeros[1])
           /\ (comp.outcome.state = "returned" /\ ~comp.outcome.completed
                 /\ comp.iterations < RepairMaxIterations) => StalledTwice
           /\ ConstantRun =>
                /\ comp.outcome.state = "returned"
                /\ ~comp.outcome.completed
                /\ comp.noProgressStreak = 2
           /\ (OpenPass(n) /\ ~NotDecreased(n)) => comp.noProgressStreak = 0
           /\ (OpenPass(n) /\ NotDecreased(n) /\ ~NotDecreased(n - 1)) =>
                comp.noProgressStreak = 1

C21_Witness ==
    /\ comp.kind = "repair"
    /\ ConstantRun
    /\ comp.seen[1] = StepPass(MaxRemaining)
    /\ comp.outcome = RepairReturned(FALSE, MaxRemaining)

C22_Outcome ==
    comp.kind = "repair" =>
        LET n == Len(comp.seen)
        IN /\ comp.iterations <= RepairMaxIterations
           /\ (comp.outcome.state = "returned" /\ comp.outcome.completed)
                <=> (n > 0 /\ ~comp.seen[n].error /\ comp.seen[n].completed)
           /\ (comp.outcome.state = "returned" /\ ~comp.outcome.completed)
                => (comp.iterations = RepairMaxIterations \/ StalledTwice)
           /\ (comp.decreasing /\ OpenPass(n)
                 /\ comp.iterations < RepairMaxIterations)
                => comp.outcome = RepairRunning
           /\ comp.outcome.state = "threw" <=> (n > 0 /\ comp.seen[n].error)

\* C22: the repair loop ends after at most 12 invocations of the step; it
\* returns completed=true exactly when the last step reported completed,
\* it returns completed=false only at the twelfth iteration or on a
\* stall, and while every pass reports fewer rows than the one before it
\* goes on until a step reports completed or the twelfth iteration.
C22_RepairTerminates ==
    /\ []C22_Outcome
    /\ <>(comp.kind = "repair" /\ comp.outcome # RepairRunning)

C22_Witness ==
    /\ comp.kind = "repair"
    /\ comp.iterations = RepairMaxIterations
    /\ comp.decreasing
    /\ comp.outcome = RepairReturned(FALSE, 1)

----------------------------------------------------------------------------
(* The retry-zeros step, the edge function `leaderboard-retry-zeros`
   (src/unnamed/part_000), on the rows of leaderboard_entries *)

ZerosChunkSize == 200

MaxSteps == 2

\* .eq('points', 0)
ZeroRows(table) == {r \in table : r.points = 0}

\* select('*', {count: 'exact', head: true}).eq('points', 0)
CountZeros(table) == Cardinality(ZeroRows(table))

\* select('token_id, nft_type, collection_slug')
ZeroPointEntry(r) ==
    [token_id |-> r.token_id, nft_type |-> r.nft_type,
     collection_slug |-> r.collection_slug]

\* .order('token_id', {ascending: true}) within one nft_type
ZerosOfType(table, nftType) ==
    LET Held(t) == \E r \in ZeroRows(table) :
                      r.nft_type = nftType /\ r.token_id = t
        Entry(t) == ZeroPointEntry(
                      CHOOSE r \in ZeroRows(table) :
                          r.nft_type = nftType /\ r.token_id = t)
        ids == SelectSeq([t \in Tokens |-> t], Held)
    IN  [j \in 1 .. Len(ids) |-> Entry(ids[j])]

\* .order('nft_type', {ascending: true}): 'Ancient' sorts before 'Mythic'
OrderedZeros(table) ==
    ZerosOfType(table, "Ancient") \o ZerosOfType(table, "Mythic")

ZerosPageAll(rows) == rows

\* .range(0, CHUNK_SIZE - 1)
ZerosPage(rows) == SubSeq(rows, 1, Min(ZerosChunkSize, Len(rows)))

\* what fetchPointsWithRetry(token_id, nft_type, 5) returns for an entry
\* while the points service is in the given state
RepairedPoints(upstream, entry) ==
    IF upstream = "down" THEN 0
    ELSE IF upstream = "partial"
    THEN StakingPoints(entry.token_id, entry.nft_type)
    ELSE StakingPoints(entry.token_id, entry.nft_type) + 1

UpstreamStates == {"down", "partial", "up"}

\* update({points}).eq('collection_slug', ...).eq('token_id', ...)
UpdatePoints(table, entry, points) ==
    {IF r.collection_slug = entry.collection_slug
          /\ r.token_id = entry.token_id
        THEN [r EXCEPT !.points = points] ELSE r : r \in table}

NoStepReply == StepReply(FALSE, FALSE, << -1 >>)

\* The locals of one invocation of the step.  store0, fetched and lost
\* record the run for the properties: the table when the step began, the
\* entries whose points were requested, the entries whose update failed.
ZerosStep(upstream, steps) ==
    [kind |-> "zeros", pc |-> "count", upstream |-> upstream,
     steps |-> steps, totalZeros |-> 0, zeroEntries |-> << >>, i |-> 0,
     results |-> << >>, j |-> 0, updated |-> 0, stillZero |-> 0,
     response |-> NoStepReply,
     store0 |-> {}, fetched |-> {}, lost |-> {}]

\* The request arrives and the rows with points 0 are counted.
ZerosCount ==
    /\ comp.kind = "zeros"
    /\ comp.pc = "count"
    /\ LET totalZeros == CountZeros(entries)
       IN  comp' = IF totalZeros = 0
                   THEN [comp EXCEPT !.pc = "done", !.store0 = entries,
                                     !.response = StepNoZeros]
                   ELSE [comp EXCEPT !.pc = "select", !.store0 = entries,
                                     !.totalZeros = totalZeros]
    /\ UNCHANGED orchVars

\* The chunk of zero-point entries is read: a read error is thrown and
\* caught, an empty chunk ends the step.
ZerosSelect(fail) ==
    /\ comp.kind = "zeros"
    /\ comp.pc = "select"
    /\ \E zeroEntries \in {ZerosPage(OrderedZeros(entries))} :
         comp' = IF fail
                 THEN [comp EXCEPT !.pc = "done", !.response = StepFailed]
                 ELSE IF Len(zeroEntries) = 0
                 THEN [comp EXCEPT !.pc = "done", !.response = StepNoZeros]
                 ELSE [comp EXCEPT !.pc = "batch",
                                   !.zeroEntries = zeroEntries]
    /\ UNCHANGED orchVars

\* processChunk: Promise.all over entries.slice(i, i + concurrency)
ZerosBatch ==
    /\ comp.kind = "zeros"
    /\ comp.pc = "batch"
    /\ LET batch == SubSeq(comp.zeroEntries, comp.i + 1,
                           Min(comp.i + RepairConcurrency,
                               Len(comp.zeroEntries)))
           results == [k \in 1 .. Len(batch) |->
                         [entry |-> batch[k],
                          points |-> RepairedPoints(comp.upstream, batch[k])]]
       IN  comp' = [comp EXCEPT
                      !.pc = "update", !.results = results, !.j = 1,
                      !.fetched = @ \cup {batch[k] : k \in 1 .. Len(batch)}]
    /\ UNCHANGED orchVars

\* for (const result of results): one result is handled; after the last
\* one the loop over the batches goes on or processChunk returns.  At most
\* one update of a step fails, and it is one of the first batch.
ZerosUpdate(fail) ==
    /\ comp.kind = "zeros"
    /\ comp.pc = "update"
    /\ LET result == comp.results[comp.j]
           last == comp.j = Len(comp.results)
           more == comp.i + RepairConcurrency < Len(comp.zeroEntries)
           c == [comp EXCEPT
                   !.j = IF last THEN 0 ELSE @ + 1,
                   !.results = IF last THEN << >> ELSE @,
                   !.i = IF last /\ more THEN @ + RepairConcurrency ELSE @,
                   !.pc = IF ~last THEN "update"
                          ELSE IF more THEN "batch" ELSE "recount"]
       IN  IF result.points > 0
           THEN IF fail
                THEN /\ comp.lost = {}
                     /\ comp.i = 0
                     /\ comp' = [c EXCEPT !.lost = {result.entry}]
                     /\ UNCHANGED entries
                ELSE /\ entries' = UpdatePoints(entries, result.entry,
                                                result.points)
                     /\ comp' = [c EXCEPT !.updated = @ + 1]
           ELSE /\ ~fail
                /\ comp' = [c EXCEPT !.stillZero = @ + 1]
                /\ UNCHANGED entries
    /\ UNCHANGED << now, meta, world, cursor, phase, starts, pc, loc, resp,
                    faults, hist >>

\* The rows with points 0 are counted again and the step answers.
ZerosRecount ==
    /\ comp.kind = "zeros"
    /\ comp.pc = "recount"
    /\ comp' = [comp EXCEPT !.pc = "done",
                            !.response = StepPass(CountZeros(entries))]
    /\ UNCHANGED orchVars

\* the driver invokes the step again
ZerosAgain ==
    /\ comp.kind = "zeros"
    /\ comp.pc = "done"
    /\ comp.steps < MaxSteps
    /\ \E upstream \in UpstreamStates :
          comp' = ZerosStep(upstream, comp.steps + 1)
    /\ UNCHANGED orchVars

\* a collection's rows: every `gap`-th token has points 0 (none if gap = 0)
StoredRows(k, n, gap) ==
    {[id |-> 0,
      collection_slug |-> COLLECTIONS[k].slug, nft_type |-> COLLECTIONS[k].nftType,
      token_id |-> t,
      points |-> IF gap > 0 /\ t % gap = 0 THEN 0 ELSE 7,
      image_url |-> "img", opensea_url |-> "url",
      is_listed |-> FALSE] : t \in 1 .. n}

\* tables around the chunk size: no row, no zero, fewer zeros than a
\* chunk, and more zeros than a chunk spread over both collections
ZeroStores ==
    {StoredRows(1, a, gap) \cup StoredRows(2, m, gap) :
        a \in {0, 2, ZerosChunkSize - 50},
        m \in {0, 3, ZerosChunkSize - 50 + 2 * RepairConcurrency},
        gap \in {0, 1, 2}}

InitZeros ==
    /\ now = Epoch
    /\ pc = [c \in Callers |-> "none"]
    /\ loc = [c \in Callers |-> NoLocals]
    /\ resp = [c \in Callers |-> NoResp]
    /\ faults = 0
    /\ starts = [c \in Callers |-> 1]
    /\ world \in SmallWorlds
    /\ meta = NoMeta
    /\ cursor = [c \in Callers |-> Start]
    /\ phase = [c \in Callers |-> "off"]
    /\ hist = [c \in Callers |-> NewRun(FALSE)]
    /\ entries \in ZeroStores
    /\ \E upstream \in UpstreamStates : comp = ZerosStep(upstream, 1)

NextZeros ==
    \/ ZerosCount
    \/ ZerosSelect(FALSE)
    \/ ZerosSelect(TRUE)
    \/ ZerosBatch
    \/ ZerosUpdate(FALSE)
    \/ ZerosUpdate(TRUE)
    \/ ZerosRecount

SpecZeros == InitZeros /\ [][NextZeros]_vars

----------------------------------------------------------------------------
(* Claims about the retry-zeros step *)

\* the first entry comes before the second in the order (nft_type, token_id)
EntryBefore(a, b) ==
    \/ a.nft_type = "Ancient" /\ b.nft_type = "Mythic"
    \/ a.nft_type = b.nft_type /\ a.token_id < b.token_id

Selected == {comp.zeroEntries[k] : k \in 1 .. Len(comp.zeroEntries)}

\* the row is as the step found it, or it is a selected zero row that now
\* holds the positive value its fetch returned
KeptOrRepaired(r, selected) ==
    \/ r \in comp.store0
    \/ /\ r.points > 0
       /\ [r EXCEPT !.points = 0] \in comp.store0
       /\ ZeroPointEntry(r) \in selected
       /\ ZeroPointEntry(r) \in comp.fetched
       /\ r.points = RepairedPoints(comp.upstream, ZeroPointEntry(r))

\* what holds of the table and of the step's requests at every moment
ZerosFrame ==
    (comp.kind = "zeros" /\ comp.pc # "count") =>
        LET selected == Selected
        IN /\ ZeroRows(comp.store0) = {} =>
                /\ comp.pc = "done"
                /\ comp.response = StepNoZeros
                /\ comp.response.completed
                /\ comp.fetched = {}
                /\ entries = comp.store0
           /\ Len(comp.zeroEntries) <= ZerosChunkSize
           /\ comp.fetched \subseteq selected
           /\ \A r \in entries : KeptOrRepaired(r, selected)
           /\ Cardinality(entries) = Cardinality(comp.store0)
           /\ (comp.pc = "done" /\ ZeroRows(comp.store0) # {}
                 /\ ~comp.response.error) =>
                /\ comp.fetched = selected
                /\ comp.response.completed <=> CountZeros(entries) = 0
                /\ comp.response.remainingZeros = << CountZeros(entries) >>

\* what holds of the rows the step selects, when it selects them
ZerosSelection ==
    (comp.kind = "zeros" /\ comp.pc = "select" /\ comp'.pc = "batch") =>
        LET selected == {comp'.zeroEntries[k] :
                            k \in 1 .. Len(comp'.zeroEntries)}
            zeros0 == {ZeroPointEntry(r) : r \in ZeroRows(comp.store0)}
            rest == zeros0 \ selected
        IN /\ entries = comp.store0
           /\ selected \subseteq zeros0
           /\ Cardinality(selected) = Len(comp'.zeroEntries)
           /\ Cardinality(selected) = Min(ZerosChunkSize, Cardinality(zeros0))
           /\ \A a \in selected : \A b \in rest : EntryBefore(a, b)

\* the selection and the table the step began with stay as they are
ZerosLocalsKept ==
    (comp.kind = "zeros" /\ comp.pc \in {"batch", "update", "recount"}) =>
        /\ comp'.zeroEntries = comp.zeroEntries
        /\ comp'.store0 = comp.store0
        /\ comp'.upstream = comp.upstream

----------------------------------------------------------------------------
(* Refresh invocations with upstream errors and store write errors, and the
   retry-zeros step running beside them *)

\* fetchAllNFTs or fetchListedTokenIds gets a non-OK response for its
\* first page: its loop breaks and it returns what it has, nothing
BodyUpstreamError(c, failed) ==
    /\ pc[c] = "body"
    /\ HasCollection(cursor[c][1])
    /\ cursor[c][2] = 0
    /\ faults < MaxFaults
    /\ faults' = faults + 1
    /\ LET slug == CollectionAt(cursor[c][1]).slug
           nfts == IF failed = "nfts" THEN NoNFTs ELSE FetchAllNFTs(slug)
           listedIds == IF failed = "listings" THEN {}
                        ELSE FetchListedTokenIds(slug)
       IN  /\ loc' = [loc EXCEPT ![c].nfts = nfts,
                                 ![c].listedIds = listedIds,
                                 ![c].i = 0,
                                 ![c].calls = @ \cup {"opensea"}]
           /\ pc' = [pc EXCEPT ![c] =
                       IF 0 < Len(nfts.order) THEN "meta" ELSE "load"]
           /\ hist' = [hist EXCEPT ![c].metaApplied[slug] =
                       IF 0 < Len(nfts.order) THEN @ ELSE @ + 1]
    /\ UNCHANGED << comp, now, meta, entries, world, cursor, phase, starts,
                    resp >>

\* one turn of the metadata loop whose upsert returns an error: the result
\* of the await is not looked at
MetaWriteFails(c) ==
    /\ pc[c] = "meta"
    /\ faults < MaxFaults
    /\ faults' = faults + 1
    /\ LET slug == CollectionAt(cursor[c][1]).slug
           i == loc[c].i
       IN  IF i + batchSize < Len(loc[c].nfts.order)
           THEN /\ loc' = [loc EXCEPT ![c].i = i + batchSize]
                /\ UNCHANGED << pc, hist >>
           ELSE /\ pc' = [pc EXCEPT ![c] = "load"]
                /\ hist' = [hist EXCEPT ![c].metaApplied[slug] = @ + 1]
                /\ UNCHANGED loc
    /\ UNCHANGED << comp, now, meta, entries, world, cursor, phase, starts,
                    resp >>

\* the points are fetched and their upsert returns an error: it is logged
\* and the handler answers with the next cursor
PointsWriteFails(c) ==
    /\ pc[c] = "points"
    /\ faults < MaxFaults
    /\ faults' = faults + 1
    /\ LET i == cursor[c][1]
           nftType == CollectionAt(i).nftType
       IN  \E got \in {FetchPointsChunk(loc[c].tokenIds, nftType,
                                        cursor[c][2], CHUNK_SIZE)} :
              /\ DOMAIN got.pointsById # {}
              /\ hist' = [hist EXCEPT
                      ![c].refetched = @ \cup
                          (hist[c].fetched \cap
                             {<< CollectionAt(i).slug, t >> :
                                 t \in DOMAIN got.pointsById}),
                      ![c].fetched = @ \cup
                             {<< CollectionAt(i).slug, t >> :
                                 t \in DOMAIN got.pointsById}]
              /\ IF got.hasMore
                 THEN CallerAfter(c, NextResp(i, got.processed),
                                  loc[c].calls \cup {"staking"},
                                  DOMAIN got.pointsById)
                 ELSE CallerAfter(c, NextResp(i + 1, 0),
                                  loc[c].calls \cup {"staking"},
                                  DOMAIN got.pointsById)
    /\ UNCHANGED << comp, now, meta, entries, world, starts >>

\* upstream collections small enough for every interleaving: the fourth
\* token of a collection has no points yet
StoreWorlds ==
    {[ancientseed |-> 1, mythicseed |-> 4, prior |-> FALSE]}

InitStore ==
    /\ now = Epoch
    /\ pc = [c \in Callers |-> "none"]
    /\ loc = [c \in Callers |-> NoLocals]
    /\ resp = [c \in Callers |-> NoResp]
    /\ faults = 0
    /\ starts = [c \in Callers |-> 1]
    /\ world \in StoreWorlds
    /\ meta = NoMeta
    /\ entries = {}
    /\ cursor = [c \in Callers |-> Start]
    /\ phase = [c \in Callers |-> IF c \in SeqCallers THEN "ready" ELSE "off"]
    /\ hist = [c \in Callers |-> NewRun(c \in SeqCallers)]
    /\ \E upstream \in UpstreamStates : comp = ZerosStep(upstream, 1)

\* any interleaving of the steps of one caller's refresh invocations and
\* of the steps of the retry-zeros invocations
NextStore ==
    \/ \E c \in SeqCallers :
          \/ StartRun(c)
          \/ Invoke(c)
          \/ Guard(c)
          \/ Body(c)
          \/ BodyThrows(c)
          \/ BodyUpstreamError(c, "nfts")
          \/ BodyUpstreamError(c, "listings")
          \/ Meta(c)
          \/ MetaWriteFails(c)
          \/ Load(c, FALSE)
          \/ Load(c, TRUE)
          \/ Points(c)
          \/ PointsWriteFails(c)
    \/ ZerosCount
    \/ ZerosSelect(FALSE)
    \/ ZerosSelect(TRUE)
    \/ ZerosBatch
    \/ ZerosUpdate(FALSE)
    \/ ZerosUpdate(TRUE)
    \/ ZerosRecount
    \/ ZerosAgain

SpecStore == InitStore /\ [][NextStore]_vars

----------------------------------------------------------------------------
(* Claims about the rows of the store under refresh and repair *)

Keys(table) == {KeyOf(r) : r \in table}

OneRowPerKey == \A r1 \in entries : \A r2 \in entries :
                    KeyOf(r1) = KeyOf(r2) => r1 = r2

KeysKept == Keys(entries) \subseteq Keys(entries')

\* C24: while refresh invocations and retry-zeros steps interleave, the
\* table holds at most one row per (collection_slug, token_id), and no
\* step removes a key that is present.
C24_UniqueKeysNeverDeleted ==
    /\ []OneRowPerKey
    /\ [][KeysKept]_vars

C24_Witness ==
    /\ comp.kind = "zeros"
    /\ comp.updated > 0
    /\ comp.pc = "update"
    /\ starts[1] = MaxStarts
    /\ pc[1] = "load"
    /\ Cardinality(entries) = world.ancientseed + world.mythicseed
    /\ \E r \in entries : r.points = 0

----------------------------------------------------------------------------
(* Claims about what the two write steps of a refresh invocation change *)

\* caller c's invocation fetches and writes the points of its slice
PointsStep(c) == pc[c] = "points" /\ pc'[c] = "none"

\* tokenIds.slice(startIdx, endIdx) of the invocation of caller c
SliceOf(c) ==
    LET tokenIds == loc[c].tokenIds
        endIdx == Min(cursor[c][2] + CHUNK_SIZE, Len(tokenIds))
    IN  {tokenIds[j] : j \in (cursor[c][2] + 1) .. endIdx}

RowsOfKey(table, key) == {r \in table : KeyOf(r) = key}

\* a row the metadata step wrote holds the points its key had, or 0 if
\* the key is new
MetaKeepsPoints ==
    \A r2 \in entries' \ entries :
        LET before == RowsOfKey(entries, KeyOf(r2))
        IN  IF before = {} THEN r2.points = 0
            ELSE \A r \in before : r2.points = r.points

\* a row the points step wrote is a row of the collection and of the
\* slice, and differs from the row its key had in nothing but the points
PointsKeepsMetadata(c) ==
    LET slice == SliceOf(c) IN
    \A r2 \in entries' \ entries :
        /\ r2.collection_slug = CollectionAt(cursor[c][1]).slug
        /\ r2.token_id \in slice
        /\ [r2 EXCEPT !.points = 0] \in
              {[r EXCEPT !.points = 0] : r \in RowsOfKey(entries, KeyOf(r2))}

\* C28: the metadata step of a refresh invocation leaves the points of
\* every existing row as they were and creates rows with points 0; the
\* points step leaves image_url, opensea_url and is_listed of every row as
\* they were and writes only rows of the current collection whose token is
\* in the current slice.
C28_WriteFrames ==
    [][\A c \in Callers :
          /\ MetaStep(c) =>
                /\ MetaKeepsPoints
                /\ Keys(entries) \subseteq Keys(entries')
          /\ PointsStep(c) =>
                /\ PointsKeepsMetadata(c)
                /\ Cardinality(entries') = Cardinality(entries)]_vars

\* the first slice of the larger collection is written over rows of an
\* earlier refresh and of the metadata step; its rows past the slice are
\* as they were
C28_Witness ==
    \E c \in Callers :
        /\ pc[c] = "none"
        /\ cursor[c] = << 1, CHUNK_SIZE >>
        /\ resp[c].fetched = 1 .. CHUNK_SIZE
        /\ world.prior
        /\ \E r \in entries :
              /\ r.collection_slug = "mythicseed"
              /\ r.token_id = CHUNK_SIZE + 1
              /\ r.points = 0
              /\ r.image_url = "img"
        /\ \E r \in entries :
              /\ r.collection_slug = "mythicseed"
              /\ r.token_id = MaxTokens
              /\ r.points = 7

----------------------------------------------------------------------------
(* Claims about upstream errors and store write errors inside a refresh *)

\* the fetch of the NFTs or of the listings fails in caller c's invocation
UpstreamFails(c) ==
    pc[c] = "body" /\ pc'[c] # "body" /\ faults' = faults + 1

\* a write to leaderboard_entries fails in caller c's invocation
StoreWriteFails(c) ==
    /\ pc[c] \in {"meta", "points"}
    /\ << pc'[c], loc'[c] >> # << pc[c], loc[c] >>
    /\ faults' = faults + 1

FailureSurfaced(c) ==
    /\ meta'.status = "error"
    /\ meta'.last_error # NULL
    /\ resp'[c].status = 500
    /\ phase'[c] = "failed"

\* C29: when the fetch of the NFTs or of the listings of a collection
\* fails with nothing accumulated, the invocation ends in the error state
\* and answers with a failure instead of going on with an empty list.
C29_UpstreamFailureSurfaced ==
    [][\A c \in Callers : UpstreamFails(c) => FailureSurfaced(c)]_vars

\* the rows of the slice hold the points the invocation fetched
SliceWritten(c) ==
    LET col == CollectionAt(cursor[c][1]) IN
    \A t \in resp'[c].fetched :
        \E r \in entries' :
            /\ KeyOf(r) = << col.slug, t >>
            /\ r.points = FetchPointsWithRetry(t, col.nftType, RefreshRetries)

\* C30: a failing metadata or points upsert flips the job status to
\* 'error' with the message stored and answers with a failure; an
\* invocation answers with an advanced cursor only if the points of its
\* slice are in the store.
C30_WriteFailureSurfaced ==
    [][\A c \in Callers :
          /\ StoreWriteFails(c) => FailureSurfaced(c)
          /\ (PointsStep(c) /\ resp'[c].ok /\ ~resp'[c].completed)
                => SliceWritten(c)]_vars

----------------------------------------------------------------------------
(* The four points clients reading the same body of the points service *)

AliasValues == {0, 2, 5}

AliasFields == {"points", "totalPoints", "stakingPoints"}

\* a body that carries value v under the given field names
AliasBody(fields, v) ==
    [f \in AliasFields |-> IF f \in fields THEN << v >> ELSE << >>]

AliasBodies ==
    {AliasBody(fields, v) : fields \in (SUBSET AliasFields) \ {{}},
                            v \in AliasValues}

PointsClients == {"refresh", "repair", "proxy", "batch"}

\* what a client returns for a token while the service answers 200 with
\* the body to every request of the client
ClientPoints(client, body) ==
    LET r == OkReply(body) IN
    IF client = "refresh"
    THEN RefreshAttempt(r, RefreshRetries, RefreshRetries).value
    ELSE IF client = "repair"
    THEN RepairAttempt(r, RepairRetries, RepairRetries).value
    ELSE IF client = "proxy"
    THEN ProxyResponse(r).points[1]
    ELSE PointsCallback(r).value

AliasCall(body) ==
    [kind |-> "alias", body |-> body,
     extracted |-> [client \in PointsClients |-> << >>]]

\* One of the clients is served the body and returns.
ClientReads(client) ==
    /\ comp.kind = "alias"
    /\ comp.extracted[client] = << >>
    /\ comp' = [comp EXCEPT !.extracted[client] =
                    << ClientPoints(client, comp.body) >>]
    /\ UNCHANGED orchVars

InitAliases ==
    /\ OrchestratorOff
    /\ comp \in {AliasCall(body) : body \in AliasBodies}

NextAliases ==
    \/ ClientReads("refresh")
    \/ ClientReads("repair")
    \/ ClientReads("proxy")
    \/ ClientReads("batch")

SpecAliases == InitAliases /\ [][NextAliases]_vars

\* the value the body carries
Carried(body) ==
    CHOOSE v \in AliasValues : \E f \in AliasFields : body[f] = << v >>

\* C25: whichever of points, totalPoints and stakingPoints a successful
\* body carries the value under, the refresh client, the repair client,
\* the single-token endpoint and the batch endpoint all return that value.
C25_AliasesEquivalent ==
    comp.kind = "alias" =>
        \A client \in PointsClients :
            comp.extracted[client] # << >> =>
                comp.extracted[client] = << Carried(comp.body) >>

----------------------------------------------------------------------------
(* loadFromCache: the browser's paged read of leaderboard_entries *)

MaxLevels == 3

\* a table of n rows, token ids 1 .. n, held as the points of each token
CacheStore(n, levels) == [t \in 1 .. n |-> t % levels]

CacheStores ==
    {CacheStore(n, levels) :
        n \in {0, 1, pageSize - 1, pageSize, MaxTokens, 2 * pageSize + 1},
        levels \in 1 .. MaxLevels}

Reverse(s) == [k \in 1 .. Len(s) |-> s[Len(s) + 1 - k]]

\* the rows that hold v points, in one of the orders the database may
\* return rows of equal sort key in
Tied(store, v, ties) ==
    LET Holds(t) == store[t] = v
        asc == SelectSeq([t \in 1 .. Len(store) |-> t], Holds)
    IN  IF ties = "ascending" THEN asc ELSE Reverse(asc)

TieOrders == {"ascending", "descending"}

\* .order('points', {ascending: false}): nothing orders rows of equal points
RECURSIVE OrderByPoints(_, _, _)
OrderByPoints(store, v, ties) ==
    IF v < 0 THEN << >>
    ELSE Tied(store, v, ties) \o OrderByPoints(store, v - 1, ties)

CacheRead(store) ==
    [kind |-> "cache", store |-> store, from |-> 0, allEntries |-> << >>,
     pc |-> "read", zeros |-> 0, total |-> 0]

\* One turn of the while loop: the query of one page and what follows it.
CachePage(ties) ==
    /\ comp.kind = "cache"
    /\ comp.pc = "read"
    /\ \E ordered \in {OrderByPoints(comp.store, MaxLevels - 1, ties)} :
         LET entries_ == SubSeq(ordered, comp.from + 1,
                                Min(comp.from + pageSize, Len(ordered)))
             all == comp.allEntries \o entries_
             Zero(t) == comp.store[t] = 0
             returned == [comp EXCEPT !.pc = "done", !.allEntries = all,
                                      !.zeros = Len(SelectSeq(all, Zero)),
                                      !.total = Len(all)]
         IN  comp' = IF Len(entries_) = 0 \/ Len(entries_) < pageSize
                     THEN returned
                     ELSE [comp EXCEPT !.allEntries = all,
                                       !.from = @ + pageSize]
    /\ UNCHANGED orchVars

\* The query returns an error: it is thrown, caught, and loadFromCache
\* returns {zeros: 0, total: 0}.
CacheReadFails ==
    /\ comp.kind = "cache"
    /\ comp.pc = "read"
    /\ comp' = [comp EXCEPT !.pc = "failed", !.zeros = 0, !.total = 0]
    /\ UNCHANGED orchVars

InitCache ==
    /\ OrchestratorOff
    /\ comp \in {CacheRead(store) : store \in CacheStores}

NextCache ==
    \/ CachePage("ascending")
    \/ CachePage("descending")
    \/ CacheReadFails

SpecCache == InitCache /\ [][NextCache]_vars

\* C27: a paged read of a table that does not change returns every row
\* exactly once, also when many rows hold the same points.
C27_CompleteRead ==
    (comp.kind = "cache" /\ comp.pc = "done") =>
        /\ Len(comp.allEntries) = Len(comp.store)
        /\ {comp.allEntries[k] : k \in 1 .. Len(comp.allEntries)}
              = 1 .. Len(comp.store)

----------------------------------------------------------------------------
(* triggerRefresh: the browser's driver of the refresh orchestrator *)

RefreshMaxIterations == 50

MaxClicks == 2

\* 200 with a body that has neither completed nor nextCollection
InvalidResp == [NoResp EXCEPT !.status = 200, !.ok = TRUE]

\* what an invocation of leaderboard-refresh may answer
DriverReplies ==
    {ConflictResp, CompletedResp, FailedResp, InvalidResp}
        \cup {NextResp(i, off) : i \in 0 .. 2, off \in {0, CHUNK_SIZE}}

\* what loadFromCache may count as rows with points 0
ZeroCounts == {0, 2}

\* what runZeroRepair may end with
RepairOutcomes ==
    {RepairReturned(TRUE, 0), RepairReturned(FALSE, 2), RepairThrew}

DriverWithinCapInclusive(iterations) == iterations <= RefreshMaxIterations

\* the loop condition of triggerRefresh
DriverWithinCap(iterations) == iterations < RefreshMaxIterations

NoReply == [NoResp EXCEPT !.status = -1]

\* The state of the page's driver.  replied, lastNext, ended and repairs
\* record the run for the properties: the last reply, the last reply that
\* carried a next cursor, whether a completed or failed reply was
\* received, and how many times runZeroRepair was started.
Driver ==
    [kind |-> "driver", refreshing |-> FALSE, clicks |-> 0, pc |-> "idle",
     currentCollection |-> 0, currentOffset |-> 0, iterations |-> 0,
     inFlight |-> 0, sent |-> Start, zeros |-> 0, outcome |-> "none",
     replied |-> NoReply, lastNext |-> NoReply, ended |-> FALSE,
     repairs |-> 0]

\* the finally block, after a return or the catch block
Finally(c, outcome) ==
    [c EXCEPT !.refreshing = FALSE, !.pc = "idle", !.outcome = outcome]

\* The button, disabled while refreshing, is clicked.
DriverClick ==
    /\ comp.kind = "driver"
    /\ comp.pc = "idle"
    /\ ~comp.refreshing
    /\ comp.clicks < MaxClicks
    /\ comp' = [Driver EXCEPT !.refreshing = TRUE, !.pc = "loop",
                              !.clicks = comp.clicks + 1]
    /\ UNCHANGED orchVars

\* The loop condition holds: the orchestrator is invoked with the cursor.
DriverInvoke ==
    /\ comp.kind = "driver"
    /\ comp.pc = "loop"
    /\ DriverWithinCap(comp.iterations)
    /\ comp' = [comp EXCEPT
                  !.iterations = @ + 1,
                  !.inFlight = @ + 1,
                  !.sent = << comp.currentCollection, comp.currentOffset >>,
                  !.pc = "await"]
    /\ UNCHANGED orchVars

\* The loop condition fails: 'Refresh took too long'.
DriverTooLong ==
    /\ comp.kind = "driver"
    /\ comp.pc = "loop"
    /\ ~DriverWithinCap(comp.iterations)
    /\ comp' = Finally(comp, "too long")
    /\ UNCHANGED orchVars

\* The invocation is answered and the answer handled, up to the next await.
DriverReceive ==
    /\ comp.kind = "driver"
    /\ comp.pc = "await"
    /\ \E data \in DriverReplies :
         LET c == [comp EXCEPT
                     !.inFlight = @ - 1,
                     !.replied = data,
                     !.lastNext = IF data.ok /\ ~data.completed
                                       /\ data.nextCollection # NoIndex
                                  THEN data ELSE @,
                     !.ended = @ \/ data.completed
                                 \/ (~data.ok /\ data.status # 409)]
         IN comp' =
              IF ~data.ok /\ data.status = 409
              THEN [c EXCEPT !.pc = "poll"]
              ELSE IF ~data.ok
              THEN Finally(c, "failed")
              ELSE IF data.completed
              THEN [c EXCEPT !.pc = "cache"]
              ELSE IF data.nextCollection # NoIndex
              THEN [c EXCEPT !.currentCollection = data.nextCollection,
                             !.currentOffset = data.nextOffset,
                             !.pc = "loop"]
              ELSE Finally(c, "failed")
    /\ UNCHANGED orchVars

\* After a conflict and 3 seconds the job status is read: 'idle' ends the
\* run, anything else goes round the loop with the same cursor.
DriverPoll ==
    /\ comp.kind = "driver"
    /\ comp.pc = "poll"
    /\ \E status \in {"idle", "running", "error", "absent"} :
          comp' = IF status = "idle"
                  THEN Finally(comp, "refreshed elsewhere")
                  ELSE [comp EXCEPT !.pc = "loop"]
    /\ UNCHANGED orchVars

\* After a completed answer the cache is loaded and its zero rows counted.
DriverCache ==
    /\ comp.kind = "driver"
    /\ comp.pc = "cache"
    /\ \E zeros \in ZeroCounts :
          comp' = IF zeros > 0
                  THEN [comp EXCEPT !.zeros = zeros, !.pc = "repair"]
                  ELSE Finally([comp EXCEPT !.zeros = zeros], "updated")
    /\ UNCHANGED orchVars

\* runZeroRepair runs and the cache is loaded again.
DriverRepair ==
    /\ comp.kind = "driver"
    /\ comp.pc = "repair"
    /\ \E result \in RepairOutcomes :
          comp' = Finally([comp EXCEPT !.repairs = @ + 1],
                          IF result = RepairThrew THEN "failed"
                          ELSE IF result.completed THEN "updated"
                          ELSE "updated with zeros")
    /\ UNCHANGED orchVars

InitDriver ==
    /\ OrchestratorOff
    /\ comp = Driver

NextDriver ==
    \/ DriverClick
    \/ DriverInvoke
    \/ DriverTooLong
    \/ DriverReceive
    \/ DriverPoll
    \/ DriverCache
    \/ DriverRepair

SpecDriver == InitDriver /\ [][NextDriver]_vars

\* the cursor the last answer with a next cursor carried, (0,0) if none
ExpectedCursor ==
    IF comp.lastNext = NoReply THEN Start
    ELSE << comp.lastNext.nextCollection, comp.lastNext.nextOffset >>

\* C26: triggerRefresh has at most one invocation of the orchestrator in
\* flight, sends each time the cursor of the last answer that carried one
\* (first (0,0)), keeps its cursor on a conflict, invokes nothing after a
\* completed or failed answer, invokes at most 50 times, and starts the
\* repair loop only after a completed answer and a cache read that
\* counted a row with points 0.
C26_DriverDiscipline ==
    comp.kind = "driver" =>
        /\ comp.inFlight <= 1
        /\ comp.inFlight = 1 <=> comp.pc = "await"
        /\ comp.iterations <= RefreshMaxIterations
        /\ comp.pc = "await" => comp.sent = ExpectedCursor
        /\ << comp.currentCollection, comp.currentOffset >> = ExpectedCursor
        /\ comp.ended => comp.pc \notin {"loop", "await", "poll"}
        /\ comp.repairs <= 1
        /\ (comp.pc = "repair" \/ comp.repairs > 0) =>
              /\ comp.replied = CompletedResp
              /\ comp.zeros > 0

\* the fiftieth invocation is in flight, sent with the cursor of the last
\* answer after a conflict in between
C26_Witness ==
    /\ comp.kind = "driver"
    /\ comp.pc = "await"
    /\ comp.iterations = RefreshMaxIterations
    /\ comp.replied = ConflictResp
    /\ comp.lastNext = NextResp(1, CHUNK_SIZE)
    /\ comp.sent = << 1, CHUNK_SIZE >>

----------------------------------------------------------------------------
(* Claims about the points a refresh writes over stored points *)

\* the row of every token of the slice holds the value fetchPointsWithRetry
\* returns for it in this invocation
SliceHoldsFetched(c) ==
    LET col == CollectionAt(cursor[c][1]) IN
    \A t \in SliceOf(c) :
        LET rows == RowsOfKey(entries', << col.slug, t >>)
        IN  /\ Cardinality(rows) = 1
            /\ \A r \in rows :
                  r.points = FetchPointsWithRetry(t, col.nftType, RefreshRetries)

\* C31: after the points step of an invocation whose upsert succeeds, the
\* stored points of every token of the slice equal the value this
\* invocation's fetch returned for it, whatever was stored before: a lower
\* value and the 0 of exhausted retries replace a higher stored value.
C31_LastWriteWins ==
    [][\A c \in Callers :
          (PointsStep(c) /\ faults' = faults) => SliceHoldsFetched(c)]_vars

\* the repair step wrote positive points for every token while the points
\* service was up; the refresh then wrote the slice of the second collection:
\* its first token holds a lower value and its fourth token holds 0 again
C31_Witness ==
    /\ comp.kind = "zeros"
    /\ comp.upstream = "up"
    /\ comp.pc \in {"recount", "done"}
    /\ comp.lost = {}
    /\ Cardinality(comp.fetched) = world.ancientseed + world.mythicseed
    /\ cursor[1] = << 2, 0 >>
    /\ resp[1].fetched = 1 .. world.mythicseed
    /\ \E r \in entries :
          /\ KeyOf(r) = << "mythicseed", 4 >>
          /\ r.points = 0
          /\ RepairedPoints("up", ZeroPointEntry(r)) > 0
    /\ \E r \in entries :
          /\ KeyOf(r) = << "mythicseed", 1 >>
          /\ r.points > 0
          /\ r.points < RepairedPoints("up", ZeroPointEntry(r))

----------------------------------------------------------------------------
(* Two refreshes on one collection whose NFT list one of them fetched only
   in part *)

\* fetchAllNFTs gets a non-OK response for its last page after its earlier
\* pages: the loop breaks and the items of the earlier pages are returned.
\* The order in which OpenSea pages the items is not the store's order of
\* token_id: here the pages run from the last token of the store's order
\* to the first, so the page that is lost holds the first tokens.
PartialNFTs(slug) ==
    LET got == NftPageLimit * ((world[slug] - 1) \div NftPageLimit)
        ids == {world[slug] + 1 - j : j \in 1 .. got}
    IN  [order |-> [j \in 1 .. got |-> world[slug] + 1 - j],
         item |-> [t \in ids |-> UpstreamItem(slug, t)]]

BodyPartialList(c) ==
    /\ pc[c] = "body"
    /\ HasCollection(cursor[c][1])
    /\ cursor[c][2] = 0
    /\ faults < MaxFaults
    /\ faults' = faults + 1
    /\ LET slug == CollectionAt(cursor[c][1]).slug
           nfts == PartialNFTs(slug)
       IN  /\ 0 < Len(nfts.order)
           /\ loc' = [loc EXCEPT ![c].nfts = nfts,
                                 ![c].listedIds = FetchListedTokenIds(slug),
                                 ![c].i = 0,
                                 ![c].calls = @ \cup {"opensea"}]
           /\ pc' = [pc EXCEPT ![c] = "meta"]
    /\ UNCHANGED << comp, now, meta, entries, world, cursor, phase, starts,
                    resp, hist >>

\* one collection longer than a chunk and than a page of the store
OffsetWorlds ==
    {[ancientseed |-> 0, mythicseed |-> MaxTokens, prior |-> FALSE]}

\* the rows an earlier refresh left after a partial fetch of the same list
OffsetRows ==
    {[id |-> 0, collection_slug |-> "mythicseed", nft_type |-> "Mythic",
      token_id |-> t, points |-> 7, image_url |-> "img",
      opensea_url |-> "url", is_listed |-> FALSE] :
        t \in (MaxTokens - NftPageLimit * ((MaxTokens - 1) \div NftPageLimit) + 1)
                 .. MaxTokens}

InitOffsets ==
    /\ InitCommon
    /\ starts = [c \in Callers |-> MaxStarts]
    /\ world \in OffsetWorlds
    /\ meta = NoMeta
    /\ entries = OffsetRows
    /\ cursor = [c \in Callers |-> Start]
    /\ phase = [c \in Callers |-> "ready"]
    /\ hist = [c \in Callers |-> NewRun(TRUE)]

\* any interleaving of the invocations of two refreshes, each following its
\* cursors from (0,0); both make their first invocation before either has
\* marked the job as running; the partial fetch happens to the first
NextOffsets ==
    \/ BodyPartialList(1)
    \/ \E c \in Callers :
          \/ Invoke(c)
          \/ Guard(c)
          \/ Body(c)
          \/ Meta(c)
          \/ Load(c, FALSE)
          \/ Points(c)

SpecOffsets == InitOffsets /\ [][NextOffsets]_vars

----------------------------------------------------------------------------
(* Claims about the offsets of a collection's list across the invocations
   of one refresh *)

\* caller c's invocation has read the list and goes on at the offset its
\* previous invocation of the same collection returned
Continues(c) ==
    /\ pc[c] = "points"
    /\ cursor[c][2] > 0
    /\ resp[c].ok
    /\ resp[c].sent = << cursor[c][1], cursor[c][2] - CHUNK_SIZE >>

\* the tokens at the offsets of the previous slice are the tokens the
\* previous invocation found there
SameTokens(c) ==
    {loc[c].tokenIds[j] :
        j \in (cursor[c][2] - CHUNK_SIZE + 1) .. cursor[c][2]}
      = resp[c].fetched

SlugIndex(slug) ==
    CHOOSE i \in 0 .. (Len(COLLECTIONS) - 1) : CollectionAt(i).slug = slug

\* the tokens of a collection that were stored when caller c's refresh was
\* admitted and whose points it has not fetched yet
Unfetched(c, slug) ==
    {r.token_id : r \in {x \in hist[c].store0 :
                            /\ x.collection_slug = slug
                            /\ KeyOf(x) \notin hist[c].fetched}}

\* no such token is at an offset the refresh has gone past
NothingPassedOver(c) ==
    (pc[c] = "points" /\ hist[c].fromStart) =>
        LET waiting == Unfetched(c, CollectionAt(cursor[c][1]).slug)
        IN  \A j \in 1 .. cursor[c][2] : loc[c].tokenIds[j] \notin waiting

\* the refresh has fetched every such token of the collections it has left
NoneSkipped(c) ==
    hist[c].fromStart =>
        \A slug \in Slugs :
            SlugIndex(slug) < cursor[c][1] => Unfetched(c, slug) = {}

\* C32 as stated: the token found at a given offset of a collection's list
\* is the same in every invocation of one refresh, whatever another refresh
\* does between them, and no token that existed when the refresh started is
\* skipped.
C32_OffsetsStable ==
    \A c \in Callers :
        /\ Continues(c) => SameTokens(c)
        /\ NothingPassedOver(c)
        /\ NoneSkipped(c)

\* C32 amended: a collection's list only grows between the invocations of
\* one refresh, so no token that was stored when the refresh was admitted
\* is at an offset the refresh has gone past, and none is skipped; the
\* token at a given offset is the same in every invocation as long as every
\* fetch of the NFT list was complete.
C32_NoStoredTokenSkipped ==
    \A c \in Callers :
        /\ Continues(c) =>
              /\ resp[c].fetched \subseteq
                    {loc[c].tokenIds[j] : j \in 1 .. Len(loc[c].tokenIds)}
              /\ faults = 0 => SameTokens(c)
        /\ NothingPassedOver(c)
        /\ NoneSkipped(c)

\* the first refresh fetched part of the list, the second inserted the
\* missing token between two invocations of the first, and the first has
\* left the collection having fetched some tokens twice and skipped none
C32_Witness ==
    /\ faults = 1
    /\ cursor[1] = << 2, 0 >>
    /\ hist[1].refetched # {}
    /\ Cardinality(hist[1].store0) > CHUNK_SIZE
    /\ Unfetched(1, "mythicseed") = {}
    /\ Cardinality(entries) = Cardinality(hist[1].store0) + 1

----------------------------------------------------------------------------
(* The repair loop of the Leaderboard page (runZeroRepair) driving the
   retry-zeros step over the rows of leaderboard_entries *)

\* processChunk over the selected entries with every update succeeding:
\* the rows whose fetch returned a positive value hold it
RepairedTable(table, zeroEntries, upstream) ==
    LET selected == {zeroEntries[k] : k \in 1 .. Len(zeroEntries)}
    IN  {IF ZeroPointEntry(r) \in selected
            /\ RepairedPoints(upstream, ZeroPointEntry(r)) > 0
         THEN [r EXCEPT !.points = RepairedPoints(upstream, ZeroPointEntry(r))]
         ELSE r : r \in table}

\* what the loop keeps of a reply: its three locals and what it returns.
\* zeros0 and selected record the run for the properties: the entries with
\* points 0 when the loop started, the entries selected by any pass.
SweepLoop(zeros0) ==
    [kind |-> "sweep", iterations |-> 0, lastRemaining |-> << >>,
     noProgressStreak |-> 0, outcome |-> RepairRunning,
     zeros0 |-> zeros0, selected |-> {}]

\* the body of the while loop after the step has answered with data
SweepHandle(c, data) ==
    LET remaining == RemainingOf(data)
        streak == IF NoProgress(remaining, c.lastRemaining)
                  THEN c.noProgressStreak + 1
                  ELSE 0
    IN  IF data.error
        THEN [c EXCEPT !.outcome = RepairThrew]
        ELSE IF data.completed
        THEN [c EXCEPT !.outcome = RepairReturned(TRUE, OrZero(remaining))]
        ELSE IF remaining = << >>
        THEN c
        ELSE [c EXCEPT
                !.noProgressStreak = streak,
                !.lastRemaining = remaining,
                !.outcome = IF streak >= 2
                            THEN RepairReturned(FALSE, remaining[1])
                            ELSE @]

\* One turn of the while loop: the step is invoked, runs on the table while
\* the points service is in one state, and its reply is handled.
SweepPass(fail) ==
    /\ comp.kind = "sweep"
    /\ comp.outcome = RepairRunning
    /\ WithinCap(comp.iterations)
    /\ \E upstream \in UpstreamStates :
       \E zeroEntries \in {ZerosPage(OrderedZeros(entries))} :
          LET c == [comp EXCEPT !.iterations = @ + 1]
          IN  IF CountZeros(entries) = 0
              THEN /\ ~fail
                   /\ upstream = "up"
                   /\ comp' = SweepHandle(c, StepNoZeros)
                   /\ UNCHANGED entries
              ELSE IF fail
              THEN /\ upstream = "up"
                   /\ comp' = SweepHandle(c, StepFailed)
                   /\ UNCHANGED entries
              ELSE \E table \in {RepairedTable(entries, zeroEntries, upstream)} :
                   /\ entries' = table
                   /\ comp' = SweepHandle(
                         [c EXCEPT !.selected = @ \cup
                             {zeroEntries[k] : k \in 1 .. Len(zeroEntries)}],
                         StepPass(CountZeros(table)))
    /\ UNCHANGED << now, meta, world, cursor, phase, starts, pc, loc, resp,
                    faults, hist >>

\* The loop condition fails: the function returns after the last pause.
SweepExhausted ==
    /\ comp.kind = "sweep"
    /\ comp.outcome = RepairRunning
    /\ ~WithinCap(comp.iterations)
    /\ comp' = [comp EXCEPT !.outcome =
                    RepairReturned(FALSE, OrZero(comp.lastRemaining))]
    /\ UNCHANGED orchVars

MaxFresh == 9

\* rows of the first collection: `stuck` rows with points 0 for which the
\* points service reports 0 unless it is fully up, followed in the order of
\* token_id by rows with points 0 for which it reports a positive value
\* unless it is down, and one row that has points
SweepRows(stuck, span) ==
    {[id |-> 0, collection_slug |-> "ancientseed", nft_type |-> "Ancient",
      token_id |-> t,
      points |-> IF t = 4 * stuck + span + 1 THEN 7 ELSE 0,
      image_url |-> "img", opensea_url |-> "url", is_listed |-> FALSE] :
        t \in {4 * k : k \in 1 .. stuck}
              \cup {u \in (4 * stuck + 1) .. (4 * stuck + span) : u % 4 # 0}
              \cup {4 * stuck + span + 1}}

\* tables with fewer zero rows than a chunk, with a chunk of them that
\* stays at zero before others, and with one fewer
SweepStores ==
    {SweepRows(stuck, span) :
        stuck \in {0, ZerosChunkSize - 1, ZerosChunkSize},
        span \in {0, 3, MaxFresh}}

InitSweep ==
    /\ now = Epoch
    /\ pc = [c \in Callers |-> "none"]
    /\ loc = [c \in Callers |-> NoLocals]
    /\ resp = [c \in Callers |-> NoResp]
    /\ faults = 0
    /\ starts = [c \in Callers |-> 1]
    /\ world \in SmallWorlds
    /\ meta = NoMeta
    /\ cursor = [c \in Callers |-> Start]
    /\ phase = [c \in Callers |-> "off"]
    /\ hist = [c \in Callers |-> NewRun(FALSE)]
    /\ entries \in SweepStores
    /\ comp = SweepLoop({ZeroPointEntry(r) : r \in ZeroRows(entries)})

NextSweep ==
    \/ SweepPass(FALSE)
    \/ SweepPass(TRUE)
    \/ SweepExhausted

\* every invocation of the step is answered, and every pause ends
SpecSweep == InitSweep /\ [][NextSweep]_vars /\ WF_vars(NextSweep)

\* C33: when one run of the repair loop returns, every row that had
\* points 0 when the loop started has been selected for a re-fetch by at
\* least one pass, also when the first 200 rows of the (nft_type, token_id)
\* order stay at zero in every pass.
C33_EveryZeroSelected ==
    (comp.kind = "sweep" /\ comp.outcome.state = "returned") =>
        comp.zeros0 \subseteq comp.selected

----------------------------------------------------------------------------
(* The points cache of the client (src/src/utils/api.ts): fetchStakingPoints
   called by concurrent loaders *)

MaxRequests == 3

\* `${nftType}_${tokenId}` for the two types and two token ids
PointsKeys == {<< nftType, tokenId >> :
                  nftType \in {"Ancient", "Mythic"}, tokenId \in {1, 2}}

\* what supabase.functions.invoke('staking-points') settles with: data with
\* or without points, an error, or a rejection
InvokeData(points) == [kind |-> "data", points |-> points]

InvokeError == [kind |-> "error", points |-> << >>]

InvokeRejects == [kind |-> "rejects", points |-> << >>]

InvokeReplies ==
    {InvokeError, InvokeRejects}
      \cup {InvokeData(p) : p \in {<< >>, << 0 >>, << 5 >>, << 8 >>}}

\* data?.points || 0
PointsOrZero(data) == IF data.points = << >> THEN 0 ELSE data.points[1]

\* pointsCache.set(cacheKey, ...) of the three branches
CachedFor(reply) ==
    IF reply.kind = "data" THEN << PointsOrZero(reply) >> ELSE << 0 >>

\* pointsCache and the calls of the loaders.  from, returned, requests and
\* hit record the run for the properties: the kind of reply each entry was
\* written from, what each loader's last call returned, the number of
\* requests, and whether the last call was answered from the cache.
PointsCache ==
    [kind |-> "pcache",
     pointsCache |-> [k \in PointsKeys |-> << >>],
     from |-> [k \in PointsKeys |-> "none"],
     awaiting |-> [c \in Callers |-> << >>],
     returned |-> [c \in Callers |-> << >>],
     hit |-> [c \in Callers |-> FALSE],
     requests |-> 0]

\* fetchStakingPoints(tokenId, nftType) up to its return or its await
StakingCall(c, k) ==
    /\ comp.kind = "pcache"
    /\ comp.awaiting[c] = << >>
    /\ IF comp.pointsCache[k] # << >>
       THEN comp' = [comp EXCEPT !.returned[c] = comp.pointsCache[k],
                                 !.hit[c] = TRUE]
       ELSE /\ comp.requests < MaxRequests
            /\ comp' = [comp EXCEPT !.awaiting[c] = << k >>,
                                    !.returned[c] = << >>,
                                    !.hit[c] = FALSE,
                                    !.requests = @ + 1]
    /\ UNCHANGED orchVars

\* the invoke settles: the cache entry is set and the value returned
StakingSettle(c, reply) ==
    /\ comp.kind = "pcache"
    /\ comp.awaiting[c] # << >>
    /\ LET k == comp.awaiting[c][1]
           value == CachedFor(reply)
       IN  comp' = [comp EXCEPT
                      !.awaiting[c] = << >>,
                      !.returned[c] = value,
                      !.pointsCache[k] = value,
                      !.from[k] = reply.kind]
    /\ UNCHANGED orchVars

InitPointsCache ==
    /\ OrchestratorOff
    /\ comp = PointsCache

NextPointsCache ==
    \E c \in Callers :
        \/ \E k \in PointsKeys : StakingCall(c, k)
        \/ \E reply \in InvokeReplies : StakingSettle(c, reply)

SpecPointsCache == InitPointsCache /\ [][NextPointsCache]_vars

\* every entry was written from a successful response
KnownGood ==
    comp.kind = "pcache" =>
        \A k \in PointsKeys :
            comp.pointsCache[k] # << >> => comp.from[k] = "data"

\* an entry that exists stays as it is
AppendOnly ==
    comp.kind = "pcache" =>
        \A k \in PointsKeys :
            comp.pointsCache[k] # << >> =>
                comp'.pointsCache[k] = comp.pointsCache[k]

\* a call for a key that has an entry returns it without a request
ServedFromCache ==
    comp.kind = "pcache" =>
        \A c \in Callers : \A k \in PointsKeys :
            (comp.pointsCache[k] # << >> /\ comp.awaiting[c] = << >>
               /\ comp'.awaiting[c] = << >> /\ comp'.returned[c] # comp.returned[c]
               /\ comp'.hit[c])
              => /\ comp'.requests = comp.requests
                 /\ comp'.returned[c] \in
                       {comp.pointsCache[j] : j \in PointsKeys}

\* C34: an entry of the points cache is written only from a successful
\* response of the points endpoint, an entry that exists is never changed,
\* and a call for a key that has an entry returns it without a request.
C34_KnownGoodAppendOnly ==
    /\ []KnownGood
    /\ [][AppendOnly]_vars
    /\ [][ServedFromCache]_vars

----------------------------------------------------------------------------
(* The image lookups of the client (getImageUrl, src/src/utils/api.ts) and
   the edge function `opensea-nft-image` (src/unnamed/part_001) *)

MaxLookups == 2

ImageIds == {1, 2}

Contracts == {"ancient", "mythic"}

\* offer[0] of a listing: a field is << >> when the listing lacks it
Offer(identifierOrCriteria, token, imageUrl) ==
    [identifierOrCriteria |-> identifierOrCriteria, token |-> token,
     imageUrl |-> imageUrl]

NoOffer == Offer(<< >>, << >>, << >>)

\* a URL with what it shows: the image of an NFT, or a placeholder text
ImageOf(origin, contract, tokenId) ==
    [origin |-> origin, contract |-> contract, tokenId |-> tokenId]

\* getPlaceholderImage(text)
Placeholder(text, tokenId) ==
    [origin |-> text, contract |-> << >>, tokenId |-> tokenId]

\* the listings the page holds: of either collection, with and without an
\* image URL of their own, one without a contract and one without an id
Offers ==
    {Offer(<< t >>, << a >>,
           IF own THEN << ImageOf("listing", << a >>, << t >>) >> ELSE << >>) :
        t \in ImageIds, a \in Contracts, own \in BOOLEAN}
      \cup {Offer(<< 1 >>, << >>, << >>), Offer(<< >>, << "ancient" >>, << >>)}

\* what the fetch of the NFT from OpenSea comes to
ImageUpstreams == {"image", "display", "empty", "status", "timeout", "fault"}

ImageReply(status, imageUrl) == [status |-> status, imageUrl |-> imageUrl]

NoImageReply == ImageReply(0, << >>)

\* the handler of opensea-nft-image for a request body and an outcome of
\* its fetch
ImageEndpoint(contractAddress, tokenId, upstream) ==
    IF contractAddress = << >> \/ tokenId = << >>
    THEN ImageReply(400, << >>)
    ELSE IF upstream = "timeout" THEN ImageReply(408, << >>)
    ELSE IF upstream = "fault" THEN ImageReply(500, << >>)
    ELSE IF upstream = "status" THEN ImageReply(200, << >>)
    ELSE IF upstream = "empty" THEN ImageReply(200, << >>)
    ELSE ImageReply(200, << ImageOf(upstream, contractAddress, tokenId) >>)

\* the result of the lookup returned as it is
LookupUrlNoFallback(tokenId, reply) == reply.imageUrl

\* !error && data?.imageUrl, else the placeholder `NFT #${tokenId}`;
\* invoke sets error for a status outside 2xx
LookupUrl(tokenId, reply) ==
    IF reply.status \in 200 .. 299 /\ reply.imageUrl # << >>
    THEN reply.imageUrl
    ELSE << Placeholder("NFT #", tokenId) >>

NeverLoading(pending, tokenId) == FALSE

\* pendingImageRequests.has(tokenId)
AlreadyLoading(pending, tokenId) == pending[tokenId] # << >>

\* one lookup: its request body, the outcome of the endpoint's fetch and
\* the endpoint's answer once it has answered, the URL once it has settled
Lookup(contractAddress, tokenId) ==
    [contractAddress |-> contractAddress, tokenId |-> tokenId,
     upstream |-> "none", reply |-> NoImageReply, url |-> << >>]

\* a caller of getImageUrl: the offer it passed, the lookup it awaits, the
\* URL it received
NoImageCall == [offer |-> NoOffer, waits |-> << >>, url |-> << >>]

\* imageCache, pendingImageRequests, the lookups made and the callers.
\* given records, per token id, the URLs getImageUrl has returned.
Images ==
    [kind |-> "images",
     imageCache |-> [t \in ImageIds |-> << >>],
     pendingImageRequests |-> [t \in ImageIds |-> << >>],
     lookups |-> << >>,
     calls |-> [c \in Callers |-> NoImageCall],
     given |-> [t \in ImageIds |-> {}]]

\* the caller received url for the offer
Received(c, offer, url) ==
    [comp EXCEPT !.calls[c] = [offer |-> offer, waits |-> << >>, url |-> url]]

\* getImageUrl(listing) up to its return: a URL, or the promise of a lookup
ImageCall(c, offer) ==
    /\ comp.kind = "images"
    /\ comp.calls[c].waits = << >>
    /\ IF offer.identifierOrCriteria = << >>
       THEN comp' = Received(c, offer, << Placeholder("No ID", << >>) >>)
       ELSE LET tokenId == offer.identifierOrCriteria[1] IN
            IF comp.imageCache[tokenId] # << >>
            THEN comp' = [Received(c, offer, comp.imageCache[tokenId])
                            EXCEPT !.given[tokenId] =
                                      @ \cup {comp.imageCache[tokenId][1]}]
            ELSE IF AlreadyLoading(comp.pendingImageRequests, tokenId)
            THEN comp' = [comp EXCEPT !.calls[c] =
                            [offer |-> offer,
                             waits |-> comp.pendingImageRequests[tokenId],
                             url |-> << >>]]
            ELSE IF offer.imageUrl # << >>
            THEN comp' = [Received(c, offer, offer.imageUrl) EXCEPT
                            !.imageCache[tokenId] = offer.imageUrl,
                            !.given[tokenId] = @ \cup {offer.imageUrl[1]}]
            ELSE IF offer.token = << >>
            THEN LET placeholder == Placeholder("No Contract", << tokenId >>)
                 IN  comp' = [Received(c, offer, << placeholder >>) EXCEPT
                                !.imageCache[tokenId] = << placeholder >>,
                                !.given[tokenId] = @ \cup {placeholder}]
            ELSE /\ Len(comp.lookups) < MaxLookups
                 /\ comp' = [comp EXCEPT
                      !.lookups = Append(@, Lookup(offer.token, << tokenId >>)),
                      !.pendingImageRequests[tokenId] =
                            << Len(comp.lookups) + 1 >>,
                      !.calls[c] = [offer |-> offer,
                                    waits |-> << Len(comp.lookups) + 1 >>,
                                    url |-> << >>]]
    /\ UNCHANGED orchVars

\* the edge function handles the request of lookup p
ImageServe(p, upstream) ==
    /\ comp.kind = "images"
    /\ p \in 1 .. Len(comp.lookups)
    /\ comp.lookups[p].upstream = "none"
    /\ comp' = [comp EXCEPT
                  !.lookups[p].upstream = upstream,
                  !.lookups[p].reply =
                      ImageEndpoint(comp.lookups[p].contractAddress,
                                    comp.lookups[p].tokenId, upstream)]
    /\ UNCHANGED orchVars

\* the request of lookup p never reaches the edge function: invoke rejects
ImageUnreachable(p) ==
    /\ comp.kind = "images"
    /\ p \in 1 .. Len(comp.lookups)
    /\ comp.lookups[p].upstream = "none"
    /\ comp' = [comp EXCEPT !.lookups[p].upstream = "unreachable"]
    /\ UNCHANGED orchVars

\* the await of lookup p ends: the cache entry is set, the pending entry
\* removed, and the promise resolves for every caller that holds it
ImageSettle(p) ==
    /\ comp.kind = "images"
    /\ p \in 1 .. Len(comp.lookups)
    /\ comp.lookups[p].upstream # "none"
    /\ comp.lookups[p].url = << >>
    /\ LET tokenId == comp.lookups[p].tokenId[1]
           url == LookupUrl(<< tokenId >>, comp.lookups[p].reply)
       IN  comp' = [comp EXCEPT
                      !.lookups[p].url = url,
                      !.imageCache[tokenId] = url,
                      !.pendingImageRequests[tokenId] = << >>,
                      !.given[tokenId] = @ \cup {url[k] : k \in DOMAIN url},
                      !.calls = [c \in Callers |->
                                   IF comp.calls[c].waits = << p >>
                                   THEN [comp.calls[c] EXCEPT
                                            !.waits = << >>, !.url = url]
                                   ELSE comp.calls[c]]]
    /\ UNCHANGED orchVars

InitImages ==
    /\ OrchestratorOff
    /\ comp = Images

NextImages ==
    \/ \E c \in Callers : \E offer \in Offers : ImageCall(c, offer)
    \/ \E p \in 1 .. MaxLookups :
          \/ \E upstream \in ImageUpstreams : ImageServe(p, upstream)
          \/ ImageUnreachable(p)
          \/ ImageSettle(p)

SpecImages == InitImages /\ [][NextImages]_vars

----------------------------------------------------------------------------
(* Claims about the image lookups *)

LookupIds == 1 .. Len(comp.lookups)

\* the lookup's fetch failed or found no image
FailedOrEmpty(p) ==
    comp.lookups[p].upstream \in
        {"timeout", "fault", "status", "empty", "unreachable"}

\* the endpoint answers a timeout of its fetch with imageUrl null; a settled
\* lookup that failed or found nothing gave the placeholder of its token;
\* every call of getImageUrl that has returned has returned a URL
TimeoutGivesPlaceholder ==
    comp.kind = "images" =>
        /\ \A p \in LookupIds :
              /\ comp.lookups[p].upstream = "timeout" =>
                    /\ comp.lookups[p].reply.status # 0
                    /\ comp.lookups[p].reply.imageUrl = << >>
              /\ (comp.lookups[p].url # << >> /\ FailedOrEmpty(p)) =>
                    comp.lookups[p].url =
                        << Placeholder("NFT #", comp.lookups[p].tokenId) >>
              /\ (comp.lookups[p].url # << >> /\ ~FailedOrEmpty(p)) =>
                    comp.lookups[p].url =
                        << ImageOf(comp.lookups[p].upstream,
                                   comp.lookups[p].contractAddress,
                                   comp.lookups[p].tokenId) >>
        /\ \A c \in Callers :
              (comp.calls[c] # NoImageCall /\ comp.calls[c].waits = << >>)
                 => comp.calls[c].url # << >>

\* the step that settles a lookup leaves the entries of the other token
\* ids, the other lookups and the callers of other lookups as they were
SettleIsLocal ==
    comp.kind = "images" =>
        \A p \in LookupIds :
            (comp.lookups[p].url = << >> /\ comp'.lookups[p].url # << >>) =>
                /\ \A t \in ImageIds \ {comp.lookups[p].tokenId[1]} :
                      /\ comp'.imageCache[t] = comp.imageCache[t]
                      /\ comp'.pendingImageRequests[t] =
                            comp.pendingImageRequests[t]
                /\ \A q \in LookupIds \ {p} :
                      comp'.lookups[q] = comp.lookups[q]
                /\ \A c \in Callers :
                      comp.calls[c].waits # << p >> =>
                          comp'.calls[c] = comp.calls[c]

\* C35: a timeout of the upstream request of an image lookup is answered by
\* the endpoint with imageUrl null; the client maps every failed or empty
\* lookup to the placeholder image of that token; getImageUrl always
\* returns a URL; and a failed lookup changes nothing for the other tokens.
C35_TimeoutIsLocal ==
    /\ []TimeoutGivesPlaceholder
    /\ [][SettleIsLocal]_vars

\* the lookup of one token timed out and gave its placeholder while the
\* lookup of the other token gave its image
C35_Witness ==
    /\ comp.kind = "images"
    /\ Len(comp.lookups) = 2
    /\ comp.lookups[1].upstream = "timeout"
    /\ comp.lookups[1].url = << Placeholder("NFT #", comp.lookups[1].tokenId) >>
    /\ comp.lookups[2].upstream = "image"
    /\ comp.lookups[2].tokenId # comp.lookups[1].tokenId
    /\ comp.calls[1].url = comp.lookups[1].url
    /\ comp.calls[2].url =
          << ImageOf("image", comp.lookups[2].contractAddress,
                     comp.lookups[2].tokenId) >>

\* the URL shows the offer's own NFT: it is the offer's own image URL, the
\* result of a lookup with the offer's contract address and token id, or a
\* placeholder
OwnUrl(offer, u) ==
    \/ offer.imageUrl = << u >>
    \/ /\ u.origin \in {"image", "display"}
       /\ u.contract = offer.token
       /\ u.tokenId = offer.identifierOrCriteria
    \/ /\ u.contract = << >>
       /\ u.tokenId \in {<< >>, offer.identifierOrCriteria}

\* C38: the URL getImageUrl returns for a listing comes from that listing's
\* own data or from a lookup with that listing's own contract address and
\* token id, also after a token with the same id of the other collection
\* was resolved.
C38_OwnImageOnly ==
    comp.kind = "images" =>
        \A c \in Callers :
            comp.calls[c].url # << >> =>
                OwnUrl(comp.calls[c].offer, comp.calls[c].url[1])

\* the lookups of a token id that have not settled
LookupsInFlight(t) ==
    {p \in LookupIds :
        comp.lookups[p].tokenId = << t >> /\ comp.lookups[p].url = << >>}

\* C40: at any moment at most one lookup is in flight per token id, every
\* URL getImageUrl has returned for a token id is the same, and once a
\* lookup has settled its token id has an entry in imageCache and none in
\* pendingImageRequests.
C40_LookupsDeduplicated ==
    comp.kind = "images" =>
        /\ \A t \in ImageIds :
              /\ Cardinality(LookupsInFlight(t)) <= 1
              /\ Cardinality(comp.given[t]) <= 1
              /\ comp.pendingImageRequests[t] # << >> =>
                    /\ LookupsInFlight(t) = {comp.pendingImageRequests[t][1]}
                    /\ comp.imageCache[t] = << >>
        /\ \A p \in LookupIds :
              comp.lookups[p].url # << >> =>
                 /\ comp.imageCache[comp.lookups[p].tokenId[1]]
                       = comp.lookups[p].url
                 /\ comp.pendingImageRequests[comp.lookups[p].tokenId[1]]
                       = << >>
        /\ \A c \in Callers :
              comp.calls[c].waits # << >> =>
                 /\ comp.calls[c].waits[1] \in
                       LookupsInFlight(comp.calls[c].offer.identifierOrCriteria[1])

\* two calls for one token id are waiting for the same lookup, the only one
C40_Witness ==
    /\ comp.kind = "images"
    /\ Len(comp.lookups) = 1
    /\ comp.calls[1].waits = << 1 >>
    /\ comp.calls[2].waits = << 1 >>
    /\ comp.calls[1].offer.identifierOrCriteria
          = comp.calls[2].offer.identifierOrCriteria
    /\ comp.lookups[1].upstream # "none"

----------------------------------------------------------------------------
(* Claims about the job-status record and the invocations that continue a
   refresh *)

\* caller c's invocation takes a step
Steps(c) == << pc'[c], loc'[c] >> # << pc[c], loc[c] >>

\* the record after the step is the record before it, or the completion
\* upsert or the error upsert applied to it
StatusKeptOrEnded ==
    \/ meta' = meta
    \/ meta' = MarkIdle(meta, now)
    \/ /\ meta'.status = "error"
       /\ meta'.last_error # NULL
       /\ meta' = MarkError(meta, meta'.last_error)

\* the record the invocation read says running since the guard window or
\* longer
ReadRunningStale(c) ==
    /\ loc[c].existingMeta.status = "running"
    /\ loc[c].existingMeta.last_started_at # NoTime
    /\ now - loc[c].existingMeta.last_started_at >= GuardWindowMin

\* C36: an invocation with a cursor other than (0,0) never reaches the
\* conflict check and leaves the job-status record as it is unless it
\* completes or fails; last_started_at changes only in the admission of a
\* (0,0) invocation; and a (0,0) invocation that read 'running' with a
\* start 5 minutes old or older is admitted, whatever the refresh that
\* started then is doing.
C36_OnlyInitialCallsStamp ==
    [][\A c \in Callers :
          /\ (cursor[c] # Start /\ Steps(c)) =>
                /\ pc[c] # "guard"
                /\ pc'[c] # "guard"
                /\ StatusKeptOrEnded
          /\ (Steps(c) /\ meta'.last_started_at # meta.last_started_at) =>
                /\ cursor[c] = Start
                /\ GuardStep(c)
                /\ meta' = MarkRunning(meta, now)
          /\ (GuardStep(c) /\ ReadRunningStale(c)) =>
                /\ meta' = MarkRunning(meta, now)
                /\ pc'[c] = "body"]_vars

\* the first refresh is between two of its chunk invocations and has not
\* stamped the record since its admission; the second was admitted five
\* minutes later as if the first were dead
C36_Witness ==
    /\ hist[1].active
    /\ cursor[1] # Start
    /\ hist[2].active
    /\ hist[2].admittedAt = hist[1].admittedAt + GuardWindowMin
    /\ meta.status = "running"
    /\ meta.last_started_at = hist[2].admittedAt
    /\ resp[2].status # 409

----------------------------------------------------------------------------
(* Claims about the cursor an invocation returns *)

\* the first cursor comes before the second in lexicographic order
CursorBefore(a, b) ==
    \/ a[1] < b[1]
    \/ a[1] = b[1] /\ a[2] < b[2]

\* the response carries a next cursor
HasNextCursor(r) == r.status = 200 /\ r.ok /\ ~r.completed

\* C37: for every cursor (i, off) sent with i >= 0 and off >= 0, the next
\* cursor of a response that is neither completed nor failed comes
\* strictly after (i, off) in lexicographic order and is not (0,0).
C37_CursorAdvances ==
    \A c \in Callers :
        HasNextCursor(resp[c]) =>
            /\ resp[c].sent[1] >= 0
            /\ resp[c].sent[2] >= 0
            /\ CursorBefore(resp[c].sent,
                            << resp[c].nextCollection, resp[c].nextOffset >>)
            /\ << resp[c].nextCollection, resp[c].nextOffset >> # Start

\* an invocation was sent an offset past the end of the collection's list,
\* fetched nothing and answered with the start of the next collection
C37_Witness ==
    \E c \in Callers :
        /\ HasNextCursor(resp[c])
        /\ resp[c].sent = << 1, 2 * CHUNK_SIZE + 100 >>
        /\ resp[c].fetched = {}
        /\ << resp[c].nextCollection, resp[c].nextOffset >> = << 2, 0 >>
        /\ world.prior
        /\ TokenIdsOfType(entries, "Mythic") # {}

\* ---------------------------------------------------------------------------
\* fetchWithRetry of the listings endpoint, one loop iteration at a time
\* (supabase/functions/opensea-listings/index.ts, lines 9-37)
\* ---------------------------------------------------------------------------

\* the values of the maxRetries parameter: the default, and the smaller ones,
\* which show what the loop does when it has no iteration or a single one
RetryLimits == 0 .. maxRetries

\* what the marketplace does with one request
RetryReplies ==
    {PageFault, PageOk(0, FALSE), PageStatus(304), PageStatus(404),
     PageStatus(429), PageStatus(500), PageStatus(503)}

AttemptsRemainInclusive(attempt, retries) == attempt <= retries

\* attempt < maxRetries
AttemptsRemain(attempt, retries) == attempt < retries

NothingFetched == [fault |-> FALSE, status |-> 0, items |-> 0, next |-> FALSE]

FetchCall(retries) ==
    [kind |-> "retry", maxRetries |-> retries, attempt |-> 1, requests |-> 0,
     at |-> "loop", seen |-> << >>, outcome |-> "running", reply |-> NothingFetched]

\* for (attempt = 1; attempt <= maxRetries; ...) { await fetch(url, options)
RetryRequest ==
    /\ comp.kind = "retry" /\ comp.at = "loop" /\ comp.outcome = "running"
    /\ comp.attempt <= comp.maxRetries
    /\ comp' = [comp EXCEPT !.requests = @ + 1, !.at = "await"]
    /\ UNCHANGED orchVars

\* the rest of the iteration: the response is returned, or the error is
\* rethrown, or the loop sleeps and continues with the next attempt
RetryReply(r) ==
    /\ comp.kind = "retry" /\ comp.at = "await"
    /\ LET seen == Append(comp.seen, r)
           return == [comp EXCEPT !.seen = seen, !.at = "done",
                                  !.outcome = "returned", !.reply = r]
           throw == [comp EXCEPT !.seen = seen, !.at = "done",
                                 !.outcome = "threw", !.reply = r]
           continue == [comp EXCEPT !.seen = seen, !.at = "loop",
                                    !.attempt = @ + 1]
       IN comp' =
            IF r.fault
            THEN IF AttemptsRemain(comp.attempt, comp.maxRetries)
                 THEN continue ELSE throw
            ELSE IF IsOk(r) \/ (r.status >= 400 /\ r.status < 500) THEN return
            ELSE IF r.status >= 500
                    /\ AttemptsRemain(comp.attempt, comp.maxRetries)
                 THEN continue
            ELSE return
    /\ UNCHANGED orchVars

\* throw new Error('Max retries exceeded'), after the loop
RetryExhausted ==
    /\ comp.kind = "retry" /\ comp.at = "loop" /\ comp.outcome = "running"
    /\ comp.attempt > comp.maxRetries
    /\ comp' = [comp EXCEPT !.at = "done", !.outcome = "exhausted"]
    /\ UNCHANGED orchVars

InitRetry ==
    /\ OrchestratorOff
    /\ comp \in {FetchCall(retries) : retries \in RetryLimits}

NextRetry ==
    \/ RetryRequest
    \/ \E r \in RetryReplies : RetryReply(r)
    \/ RetryExhausted

SpecRetry == InitRetry /\ [][NextRetry]_vars

\* a response or an error that the loop answers with another attempt when
\* attempts remain
Retried(r) == r.fault \/ r.status >= 500

\* the replies of one call, filled up to maxRetries for the function above
SeenRaws ==
    [k \in 1 .. maxRetries |->
        IF k <= Len(comp.seen) THEN comp.seen[k] ELSE PageFault]

\* C39: a call of fetchWithRetry with the default maxRetries = 3 issues at
\* most maxRetries requests; every reply before the last one was a 5xx
\* response or a thrown error met while attempts remained; a 2xx or 4xx
\* response is returned at once; a 5xx response is returned, and an error
\* rethrown, only when it is the one of the final attempt; and the throw
\* after the loop is never reached.
C39_RetryOutcomes ==
    (comp.kind = "retry" /\ comp.maxRetries = maxRetries) =>
        LET n == Len(comp.seen)
            last == comp.seen[n]
        IN /\ comp.requests <= maxRetries
           /\ comp.requests = IF comp.at = "await" THEN n + 1 ELSE n
           /\ comp.outcome # "exhausted"
           /\ \A k \in 1 .. n :
                (k < n \/ comp.outcome = "running") =>
                    Retried(comp.seen[k]) /\ k < maxRetries
           /\ comp.outcome = "returned" =>
                /\ ~last.fault /\ comp.reply = last
                /\ last.status >= 500 => n = maxRetries
           /\ comp.outcome = "threw" =>
                last.fault /\ comp.reply = last /\ n = maxRetries
           /\ comp.at = "done" =>
                fetchWithRetry(SeenRaws, 1) =
                    [threw |-> comp.outcome = "threw", reply |-> comp.reply,
                     requests |-> comp.requests]

C39_Witness ==
    /\ comp.kind = "retry" /\ comp.maxRetries = maxRetries
    /\ comp.seen = <<PageStatus(500), PageFault, PageStatus(503)>>
    /\ comp.outcome = "returned" /\ comp.reply = PageStatus(503)
    /\ comp.requests = maxRetries

====
